---- MODULE Spec2Model ----
(***************************************************************************)
(* Context & Relationship Resolution Engine of insight-forge.              *)
(*                                                                         *)
(*   backend/app/services/relationship_resolver.py  RelationshipResolver   *)
(*   backend/app/services/sql_generator.py          SQLGenerator           *)
(*   backend/app/services/context_validator.py      ValidationResult,      *)
(*                                                  ContextValidator       *)
(*                                                                         *)
(* A Python dict is a record or a function, a list a sequence, a set a set.*)
(* Optional[List] results are records [found, path]: None is found = FALSE,*)
(* a list (possibly empty) is found = TRUE.  Iteration over a Python set   *)
(* of strings has no order the program controls (string hashes are         *)
(* randomised per process), so every such iteration is a nondeterministic  *)
(* choice of the order.                                                    *)
(***************************************************************************)
EXTENDS Integers, Sequences, FiniteSets, TLC

(***************************************************************************)
(* Bounds of the model.                                                    *)
(***************************************************************************)
\* number of dataset local ids relationships are drawn from
NumDatasets == 3
\* longest relationship list
MaxRels == 3
\* largest explicit max_depth argument tried (0 .. MaxDepthArg)
MaxDepthArg == 3
\* longest list of required dataset ids handed to find_join_path_multi
MaxRequired == 3
\* number of distinct relationship ids a document may use
NumRelIds == 2
\* most issues added to one ValidationResult
MaxIssues == 3
\* most relationships of a defective document
MaxDocRels == 2
\* most relationships, and most required datasets, where calls are repeated
MaxFrameRels == 2

DatasetNames == <<"A", "B", "C", "D", "E", "F">>
RelIdNames == <<"r1", "r2", "r3", "r4", "r5", "r6">>

Datasets == {DatasetNames[i] : i \in 1..NumDatasets}
RelIds == {RelIdNames[i] : i \in 1..NumRelIds}

\* find_join_path(..., max_depth: int = 5)
DefaultMaxDepth == 5
\* find_join_path_multi(..., max_depth: int = 10)
DefaultMaxDepthMulti == 10

JoinTypes == {"inner", "left", "right", "outer"}

(***************************************************************************)
(* Generic helpers.                                                        *)
(***************************************************************************)
Range(s) == {s[i] : i \in 1..Len(s)}

SeqsUpTo(S, n) == UNION {[1..k -> S] : k \in 0..n}

(***************************************************************************)
(* State.                                                                  *)
(***************************************************************************)
VARIABLES
    relationships,  \* RelationshipResolver.relationships
    graph,          \* RelationshipResolver.graph (adjacency lists)
    generator,      \* the SQLGenerator: its context and the dicts built from it
    parsed_context, \* the parsed document handed to ContextValidator.validate
    validator,      \* the ContextValidator: its db rows and its user_id
    validation,     \* the ValidationResult: errors, warnings, passed
    calls,          \* how often add_error / add_warning ran on it
    op,             \* the operation that ran last
    args,           \* its arguments
    result          \* what it returned

vars == <<relationships, graph, generator, parsed_context, validator,
          validation, calls, op, args, result>>

(***************************************************************************)
(* RelationshipResolver._build_graph                                       *)
(***************************************************************************)
\* `if k not in graph: graph[k] = []`
EnsureKey(g, k) == IF k \in DOMAIN g THEN g ELSE (k :> <<>>) @@ g

\* `graph[k].append(e)`
AppendEdge(g, k, e) == [g EXCEPT ![k] = Append(@, e)]

ForwardEdge(rel) ==
    [to |-> rel.right_dataset, relationship |-> rel, reverse |-> FALSE]

\* a reverse edge that carries a copy of the relationship with the columns
\* of its conditions swapped
ReverseEdgeRemapped(rel) ==
    [to |-> rel.left_dataset,
     relationship |->
         [rel EXCEPT !.conditions =
             [i \in 1..Len(rel.conditions) |->
                 [left_column |-> rel.conditions[i].right_column,
                  operator |-> rel.conditions[i].operator,
                  right_column |-> rel.conditions[i].left_column]]],
     reverse |-> TRUE]

ReverseEdge(rel) ==
    [to |-> rel.left_dataset, relationship |-> rel, reverse |-> TRUE]

\* a graph that forgets the reverse edges: relationships are followed in
\* their declared direction only
RECURSIVE BuildGraphForwardOnly(_, _, _)
BuildGraphForwardOnly(rels, i, g) ==
    IF i > Len(rels) THEN g
    ELSE LET rel == rels[i]
             g1 == EnsureKey(EnsureKey(g, rel.left_dataset), rel.right_dataset)
             g2 == AppendEdge(g1, rel.left_dataset, ForwardEdge(rel))
         IN  BuildGraphForwardOnly(rels, i + 1, g2)

RECURSIVE BuildGraphFrom(_, _, _)
BuildGraphFrom(rels, i, g) ==
    IF i > Len(rels) THEN g
    ELSE LET rel == rels[i]
             left == rel.left_dataset
             right == rel.right_dataset
             g1 == EnsureKey(EnsureKey(g, left), right)
             g2 == AppendEdge(g1, left, ForwardEdge(rel))
             g3 == AppendEdge(g2, right, ReverseEdge(rel))
         IN  BuildGraphFrom(rels, i + 1, g3)

EmptyGraph == [k \in {} |-> <<>>]

build_graph(rels) == BuildGraphFrom(rels, 1, EmptyGraph)

\* `self.graph.get(node, [])`
GraphGet(g, node) == IF node \in DOMAIN g THEN g[node] ELSE <<>>

(***************************************************************************)
(* RelationshipResolver.find_join_path                                     *)
(***************************************************************************)
None == [found |-> FALSE, path |-> <<>>]
Some(p) == [found |-> TRUE, path |-> p]

\* Python truthiness of an Optional[List]: None and [] are both falsy
Truthy(r) == r.found /\ r.path /= <<>>

\* the depth check off by one: a node max_depth edges away is still expanded
DepthLimitOffByOne(path, max_depth) == Len(path) > max_depth

\* `len(path) >= max_depth`
DepthLimitReached(path, max_depth) == Len(path) >= max_depth

\* the `for edge in self.graph.get(current, [])` loop of one dequeued node:
\* either returns the found path, or leaves the queue and the visited set
RECURSIVE ExploreNeighbors(_, _, _, _, _, _)
ExploreNeighbors(edges, i, path, queue, visited, to_dataset) ==
    IF i > Len(edges)
    THEN [returned |-> FALSE, queue |-> queue, visited |-> visited]
    ELSE LET edge == edges[i]
             neighbor == edge.to
         IN  IF neighbor = to_dataset
             THEN [returned |-> TRUE, path |-> Append(path, edge)]
             ELSE IF neighbor \notin visited
                  THEN ExploreNeighbors(edges, i + 1, path,
                           Append(queue, <<neighbor, Append(path, edge)>>),
                           visited \cup {neighbor}, to_dataset)
                  ELSE ExploreNeighbors(edges, i + 1, path, queue, visited,
                                        to_dataset)

\* the `while queue` loop
RECURSIVE BfsLoop(_, _, _, _, _)
BfsLoop(g, queue, visited, to_dataset, max_depth) ==
    IF queue = <<>> THEN None
    ELSE LET current == Head(queue)[1]
             path == Head(queue)[2]
             rest == Tail(queue)
         IN  IF DepthLimitReached(path, max_depth)
             THEN BfsLoop(g, rest, visited, to_dataset, max_depth)
             ELSE LET e == ExploreNeighbors(GraphGet(g, current), 1, path,
                                            rest, visited, to_dataset)
                  IN  IF e.returned THEN Some(e.path)
                      ELSE BfsLoop(g, e.queue, e.visited, to_dataset,
                                   max_depth)

find_join_path(g, from_dataset, to_dataset, max_depth) ==
    IF from_dataset = to_dataset THEN Some(<<>>)
    ELSE IF from_dataset \notin DOMAIN g \/ to_dataset \notin DOMAIN g
         THEN None
         ELSE BfsLoop(g, << <<from_dataset, <<>> >> >>, {from_dataset},
                      to_dataset, max_depth)

(***************************************************************************)
(* RelationshipResolver.find_join_path_multi                               *)
(***************************************************************************)
\* duplicate removal that keeps the last edge of every relationship id
RECURSIVE RemoveDuplicateRelationshipsKeepLast(_, _, _, _)
RemoveDuplicateRelationshipsKeepLast(all_edges, i, seen_rels, unique_edges) ==
    IF i > Len(all_edges) THEN unique_edges
    ELSE IF \E j \in (i + 1)..Len(all_edges) :
                all_edges[j].relationship.id = all_edges[i].relationship.id
    THEN RemoveDuplicateRelationshipsKeepLast(all_edges, i + 1, seen_rels,
                                              unique_edges)
    ELSE RemoveDuplicateRelationshipsKeepLast(all_edges, i + 1, seen_rels,
             Append(unique_edges, all_edges[i]))

\* lines 157-166: keep the first edge of every relationship id
RECURSIVE RemoveDuplicateRelationships(_, _, _, _)
RemoveDuplicateRelationships(all_edges, i, seen_rels, unique_edges) ==
    IF i > Len(all_edges) THEN unique_edges
    ELSE LET rel_id == all_edges[i].relationship.id
         IN  IF rel_id \notin seen_rels
             THEN RemoveDuplicateRelationships(all_edges, i + 1,
                      seen_rels \cup {rel_id},
                      Append(unique_edges, all_edges[i]))
             ELSE RemoveDuplicateRelationships(all_edges, i + 1, seen_rels,
                                               unique_edges)

\* the pairs (connected_ds, target_ds) of one pass of the two nested loops
\* whose path is truthy (`if path and ...`)
Candidates(g, connected, remaining, max_depth) ==
    {p \in connected \X remaining :
        Truthy(find_join_path(g, p[1], p[2], max_depth))}

\* `len(path) < best_distance` keeps the first pair of least length in
\* iteration order; both loops iterate Python sets, so every pair of least
\* length can be that first one
BestPairs(g, connected, remaining, max_depth) ==
    LET cands == Candidates(g, connected, remaining, max_depth)
        dist(p) == Len(find_join_path(g, p[1], p[2], max_depth).path)
    IN  {p \in cands : \A q \in cands : dist(p) <= dist(q)}

\* the `while remaining` loop: the set of results it can return
RECURSIVE MultiLoop(_, _, _, _, _)
MultiLoop(g, connected, remaining, all_edges, max_depth) ==
    IF remaining = {}
    THEN {Some(RemoveDuplicateRelationships(all_edges, 1, {}, <<>>))}
    ELSE LET best == BestPairs(g, connected, remaining, max_depth)
         IN  IF best = {} THEN {None}
             ELSE UNION {
                 MultiLoop(g, connected \cup {p[2]}, remaining \ {p[2]},
                     all_edges \o find_join_path(g, p[1], p[2], max_depth).path,
                     max_depth) : p \in best}

find_join_path_multi(g, dataset_ids, max_depth) ==
    IF Len(dataset_ids) < 2 THEN {Some(<<>>)}
    ELSE MultiLoop(g, {dataset_ids[1]}, Range(Tail(dataset_ids)), <<>>,
                   max_depth)

(***************************************************************************)
(* SQLGenerator                                                            *)
\* rel.get('join_type', 'inner')
JoinTypeOf(rel) ==
    IF "join_type" \in DOMAIN rel THEN rel.join_type ELSE "inner"

Smaller(a, b) == IF a <= b THEN a ELSE b

\* edge.get('reverse')
EdgeReverse(edge) == IF "reverse" \in DOMAIN edge THEN edge.reverse ELSE FALSE

\* datasets_in_path: both endpoints of every edge, in the order joined
DatasetsInPath(path) ==
    [k \in 1..(2 * Len(path)) |->
        LET edge == path[(k + 1) \div 2]
            rel == edge.relationship
        IN  IF EdgeReverse(edge)
            THEN IF k % 2 = 1 THEN rel.right_dataset ELSE rel.left_dataset
            ELSE IF k % 2 = 1 THEN rel.left_dataset ELSE rel.right_dataset]

\* Counter(datasets_in_path)[ds]
DatasetCount(datasets_in_path, ds) ==
    Cardinality({k \in DOMAIN datasets_in_path : datasets_in_path[k] = ds})

validate_join_path_at_most_once(path) ==
    IF path = <<>> THEN TRUE
    ELSE IF \E i \in DOMAIN path : "relationship" \notin DOMAIN path[i]
    THEN FALSE
    ELSE LET datasets_in_path == DatasetsInPath(path)
         IN  \A ds \in Range(datasets_in_path) :
                 ~(DatasetCount(datasets_in_path, ds) > 1)

\* RelationshipResolver.validate_join_path: every edge carries a
\* relationship and no dataset occurs more than twice among the endpoints
validate_join_path(path) ==
    IF path = <<>> THEN TRUE
    ELSE IF \E i \in DOMAIN path : "relationship" \notin DOMAIN path[i]
    THEN FALSE
    ELSE LET datasets_in_path == DatasetsInPath(path)
         IN  \A ds \in Range(datasets_in_path) :
                 ~(DatasetCount(datasets_in_path, ds) > 2)

RECURSIVE estimate_join_cost_outer_as_left(_)
estimate_join_cost_outer_as_left(path) ==
    IF path = <<>> THEN 0
    ELSE LET join_type == JoinTypeOf(Head(path).relationship)
         IN  10 + (IF join_type \in {"left", "right", "outer"} THEN 5 ELSE 0)
                + estimate_join_cost_outer_as_left(Tail(path))

\* RelationshipResolver.estimate_join_cost
RECURSIVE estimate_join_cost(_)
estimate_join_cost(path) ==
    IF path = <<>> THEN 0
    ELSE LET join_type == JoinTypeOf(Head(path).relationship)
         IN  10 + (IF join_type \in {"left", "right", "outer"} THEN 5 ELSE 0)
                + (IF join_type = "outer" THEN 5 ELSE 0)
                + estimate_join_cost(Tail(path))

\* list.sort(key=cost): stable, by insertion
RECURSIVE SortByCost(_)
SortByCost(suggestions) ==
    IF suggestions = <<>> THEN <<>>
    ELSE LET sorted == SortByCost(SubSeq(suggestions, 1, Len(suggestions) - 1))
             last == suggestions[Len(suggestions)]
             before == {i \in 1..Len(sorted) : sorted[i].cost <= last.cost}
             n == Cardinality(before)
         IN  SubSeq(sorted, 1, n) \o <<last>> \o SubSeq(sorted, n + 1, Len(sorted))

\* suggest_joins, the loop over the starting points: every list of
\* suggestions it can build
RECURSIVE SuggestFrom(_, _, _, _)
SuggestFrom(g, required_datasets, i, suggestions) ==
    IF i > Len(required_datasets) THEN {suggestions}
    ELSE LET start_ds == required_datasets[i]
             others == SelectSeq(required_datasets, LAMBDA ds : ds # start_ds)
         IN  UNION {
                 SuggestFrom(g, required_datasets, i + 1,
                     IF Truthy(path) /\ validate_join_path(path.path)
                     THEN Append(suggestions,
                              [path |-> path.path,
                               cost |-> estimate_join_cost(path.path),
                               start_dataset |-> start_ds,
                               num_joins |-> Len(path.path)])
                     ELSE suggestions) :
                 path \in find_join_path_multi(g, <<start_ds>> \o others,
                                               DefaultMaxDepthMulti)}

\* RelationshipResolver.suggest_joins: every result it can have
suggest_joins(g, required_datasets, max_suggestions) ==
    {LET sorted == SortByCost(suggestions)
     IN  SubSeq(sorted, 1, Smaller(max_suggestions, Len(sorted))) :
        suggestions \in SuggestFrom(g, required_datasets, 1, <<>>)}

(***************************************************************************)
\* `{x['id']: x for x in items}`: a later item replaces an earlier one of
\* the same id
DictById(items) ==
    [k \in {items[i].id : i \in 1..Len(items)} |->
        LET last == CHOOSE i \in 1..Len(items) :
                        /\ items[i].id = k
                        /\ \A j \in 1..Len(items) : items[j].id = k => j <= i
        IN  items[last]]

\* SQLGenerator.__init__
SQLGenerator(context) ==
    [context |-> context,
     datasets |-> DictById(context.datasets),
     metrics |-> IF context.metrics /= <<>> THEN DictById(context.metrics)
                 ELSE [k \in {} |-> <<>>],
     filters |-> IF context.filters /= <<>> THEN DictById(context.filters)
                 ELSE [k \in {} |-> <<>>]]

\* `sep.join(parts)`
RECURSIVE JoinStr(_, _)
JoinStr(sep, parts) ==
    IF parts = <<>> THEN ""
    ELSE IF Len(parts) = 1 THEN parts[1]
    ELSE parts[1] \o sep \o JoinStr(sep, Tail(parts))

\* str.upper() on the words the generator upper-cases
Upper(w) ==
    CASE w = "inner" -> "INNER"
      [] w = "left" -> "LEFT"
      [] w = "right" -> "RIGHT"
      [] w = "outer" -> "OUTER"
      [] w = "and" -> "AND"
      [] w = "or" -> "OR"

\* `self.datasets.get(ds_id, {}).get('alias', ds_id)`
AliasOf(gen, ds_id) ==
    IF ds_id \in DOMAIN gen.datasets /\ "alias" \in DOMAIN gen.datasets[ds_id]
    THEN gen.datasets[ds_id].alias
    ELSE ds_id

\* `cond.get('condition_type', 'on')`
ConditionTypeOf(cond) ==
    IF "condition_type" \in DOMAIN cond THEN cond.condition_type ELSE "on"

\* lines 137-144: the conditions of a reversed join, columns swapped
SwapConditions(conditions) ==
    [i \in 1..Len(conditions) |->
        [left_column |-> conditions[i].right_column,
         operator |-> conditions[i].operator,
         right_column |-> conditions[i].left_column]]

\* a reversed join that swaps the datasets but not the columns
JoinSidesUnswapped(edge) ==
    LET rel == edge.relationship
    IN  IF edge.reverse
        THEN [left_ds_id |-> rel.right_dataset,
              right_ds_id |-> rel.left_dataset,
              conditions |-> rel.conditions]
        ELSE [left_ds_id |-> rel.left_dataset,
              right_ds_id |-> rel.right_dataset,
              conditions |-> rel.conditions]

\* lines 132-148: the datasets and conditions of one join
JoinSides(edge) ==
    LET rel == edge.relationship
    IN  IF edge.reverse
        THEN [left_ds_id |-> rel.right_dataset,
              right_ds_id |-> rel.left_dataset,
              conditions |-> SwapConditions(rel.conditions)]
        ELSE [left_ds_id |-> rel.left_dataset,
              right_ds_id |-> rel.right_dataset,
              conditions |-> rel.conditions]

\* lines 155-166: the texts of the conditions of one join
RECURSIVE JoinConditions(_, _, _, _, _)
JoinConditions(gen, sides, right_alias, i, join_conditions) ==
    IF i > Len(sides.conditions) THEN join_conditions
    ELSE LET cond == sides.conditions[i]
             left_col == AliasOf(gen, sides.left_ds_id) \o "." \o cond.left_column
             right_col == right_alias \o "." \o cond.right_column
             comparison == left_col \o " " \o cond.operator \o " " \o right_col
             condition_type == ConditionTypeOf(cond)
         IN  JoinConditions(gen, sides, right_alias, i + 1,
                 Append(join_conditions,
                     IF condition_type = "on" \/ Len(join_conditions) = 0
                     THEN comparison
                     ELSE Upper(condition_type) \o " " \o comparison))

\* lines 128-169: the JOIN clause of one edge
JoinClause(gen, edge) ==
    LET sides == JoinSides(edge)
        right_alias == AliasOf(gen, sides.right_ds_id)
        join_type == Upper(JoinTypeOf(edge.relationship))
    IN  join_type \o " JOIN " \o sides.right_ds_id \o " AS " \o right_alias
            \o " ON "
            \o JoinStr(" ", JoinConditions(gen, sides, right_alias, 1, <<>>))

\* a reverse join that swaps the columns in the relationship itself
RelationshipAfterJoinSwappedInPlace(edge) ==
    IF edge.reverse
    THEN [edge.relationship EXCEPT !.conditions = SwapConditions(@)]
    ELSE edge.relationship

\* the relationship of an edge once _build_from_clause has joined it: the
\* swapped conditions are a new list, the relationship keeps its own
RelationshipAfterJoin(edge) == edge.relationship

\* the relationship list once _build_from_clause has gone through a path;
\* the edges of the path, the adjacency lists and the list share the
\* relationship dicts
RECURSIVE RelationshipsAfterQuery(_, _, _)
RelationshipsAfterQuery(rels, join_path, i) ==
    IF i > Len(join_path) THEN rels
    ELSE RelationshipsAfterQuery(
             [k \in 1..Len(rels) |->
                 IF rels[k].id = join_path[i].relationship.id
                 THEN RelationshipAfterJoin(
                          [join_path[i] EXCEPT !.relationship = rels[k]])
                 ELSE rels[k]],
             join_path, i + 1)

\* a FROM clause that always starts at the left dataset of the first edge
build_from_clause_from_left(gen, join_path) ==
    IF join_path = <<>>
    THEN IF gen.context.datasets /= <<>>
         THEN LET first_ds == gen.datasets[gen.context.datasets[1].id]
              IN  <<"FROM " \o first_ds.id \o " AS " \o AliasOf(gen, first_ds.id)>>
         ELSE <<"FROM dataset">>
    ELSE LET start_ds_id == join_path[1].relationship.left_dataset
         IN  <<"FROM " \o start_ds_id \o " AS " \o AliasOf(gen, start_ds_id)>>
             \o [i \in 1..Len(join_path) |-> JoinClause(gen, join_path[i])]

\* SQLGenerator._build_from_clause; a text is the sequence of its lines
build_from_clause(gen, join_path) ==
    IF join_path = <<>>
    THEN IF gen.context.datasets /= <<>>
         THEN LET first_ds == gen.datasets[gen.context.datasets[1].id]
              IN  <<"FROM " \o first_ds.id \o " AS " \o AliasOf(gen, first_ds.id)>>
         ELSE <<"FROM dataset">>
    ELSE LET first_edge == join_path[1]
             first_rel == first_edge.relationship
             start_ds_id == IF first_edge.reverse THEN first_rel.right_dataset
                            ELSE first_rel.left_dataset
             start_alias == AliasOf(gen, start_ds_id)
         IN  <<"FROM " \o start_ds_id \o " AS " \o start_alias>>
             \o [i \in 1..Len(join_path) |-> JoinClause(gen, join_path[i])]

\* a select clause that never expands a metric
ExpandColumnBare(gen, col) == col

\* SQLGenerator._build_select_clause: one select column
ExpandColumn(gen, col) ==
    IF col \in DOMAIN gen.metrics
    THEN gen.metrics[col].expression \o " AS " \o col
    ELSE col

\* "SELECT " followed by the columns joined by ",\n    ", as lines
SelectLines(gen, columns) ==
    IF columns = <<>> THEN <<"SELECT ">>
    ELSE [i \in 1..Len(columns) |->
             (IF i = 1 THEN "SELECT " ELSE "    ")
             \o ExpandColumn(gen, columns[i])
             \o (IF i < Len(columns) THEN "," ELSE "")]

\* SQLGenerator._build_where_clause
build_where_clause(conditions) ==
    IF conditions = <<>> THEN <<>>
    ELSE <<"WHERE " \o JoinStr(" AND ", conditions)>>

\* SQLGenerator._build_group_by_clause
build_group_by_clause(columns) ==
    IF columns = <<>> THEN <<>>
    ELSE <<"GROUP BY " \o JoinStr(", ", columns)>>

\* SQLGenerator._build_order_by_clause
build_order_by_clause(columns) ==
    IF columns = <<>> THEN <<>>
    ELSE <<"ORDER BY " \o JoinStr(", ", columns)>>

\* `f"LIMIT {limit}" if limit else ""`; no limit is 0, which Python treats
\* as it treats None
LimitClause(limit) ==
    IF limit /= 0 THEN <<"LIMIT " \o ToString(limit)>> ELSE <<>>

\* SQLGenerator.generate_multi_dataset_query: the lines of the query; an
\* empty part contributes no line
generate_multi_dataset_query(gen, q) ==
    SelectLines(gen, q.select_columns)
    \o build_from_clause(gen, q.join_path)
    \o build_where_clause(q.where_clauses)
    \o build_group_by_clause(q.group_by)
    \o build_order_by_clause(q.order_by)
    \o LimitClause(q.limit)

\* SQLGenerator.generate_simple_query: the lines of the query
generate_simple_query(gen, dataset_id, select_columns, where_clauses, limit) ==
    SelectLines(gen, select_columns)
    \o <<"FROM " \o dataset_id \o " AS " \o AliasOf(gen, dataset_id)>>
    \o build_where_clause(where_clauses)
    \o LimitClause(limit)

(***************************************************************************)
(* ValidationResult                                                        *)
(***************************************************************************)
\* Python's None where a string or a dict is optional
PyNone == "<None>"

\* ValidationResult.__init__
NewValidationResult == [errors |-> <<>>, warnings |-> <<>>, passed |-> TRUE]

\* None where a dict is optional, kept apart from every dict
NoneDict == [is_none |-> TRUE]
EmptyDict == [k \in {} |-> PyNone]

\* `details or {}`
DetailsOrEmpty(details) ==
    IF details = NoneDict \/ details = EmptyDict THEN EmptyDict ELSE details

Issue(code, message, field, severity, details) ==
    [code |-> code, message |-> message, field |-> field,
     severity |-> severity, details |-> DetailsOrEmpty(details)]

\* an add_error that leaves the passed flag alone
add_error_keeps_passed(v, code, message, field, details) ==
    [v EXCEPT !.errors = Append(@, Issue(code, message, field, "error", details))]

\* ValidationResult.add_error
add_error(v, code, message, field, details) ==
    [v EXCEPT !.errors = Append(@, Issue(code, message, field, "error", details)),
              !.passed = FALSE]

\* ValidationResult.add_warning
add_warning(v, code, message, field, details) ==
    [v EXCEPT !.warnings =
                  Append(@, Issue(code, message, field, "warning", details))]

\* ValidationResult.get_status
get_status(v) ==
    IF Len(v.errors) > 0 THEN "failed"
    ELSE IF Len(v.warnings) > 0 THEN "warning"
    ELSE "passed"

\* ValidationResult.to_dict
to_dict(v) ==
    [status |-> get_status(v), passed |-> v.passed,
     error_count |-> Len(v.errors), warning_count |-> Len(v.warnings),
     errors |-> v.errors, warnings |-> v.warnings]

\* str.replace(old, new) on a text given as the sequence of its characters
RECURSIVE Replace(_, _, _)
Replace(text, old, new) ==
    IF Len(text) < Len(old) THEN text
    ELSE IF SubSeq(text, 1, Len(old)) = old
    THEN new \o Replace(SubSeq(text, Len(old) + 1, Len(text)), old, new)
    ELSE <<Head(text)>> \o Replace(Tail(text), old, new)

\* a value formatted for its data type
FormatValue(data_type, value) ==
    IF data_type = "string" THEN <<"'">> \o value \o <<"'">> ELSE value

\* apply_filter, the loop over the declared parameters
RECURSIVE ReplaceParameters(_, _, _, _)
ReplaceParameters(condition, parameters, i, params) ==
    IF i > Len(parameters) THEN condition
    ELSE LET param_def == parameters[i]
             param_name == param_def.name
             data_type == IF "data_type" \in DOMAIN param_def
                          THEN param_def.data_type ELSE "string"
         IN  ReplaceParameters(
                 IF param_name \in DOMAIN params
                 THEN Replace(condition, <<"{", param_name, "}">>,
                              FormatValue(data_type, params[param_name]))
                 ELSE condition,
                 parameters, i + 1, params)

\* SQLGenerator.apply_filter: params is a dict name -> str(value), or None;
\* a text is a sequence of characters, a parameter name counting as one
apply_filter(gen, filter_id, params) ==
    IF filter_id \notin DOMAIN gen.filters THEN <<>>
    ELSE LET filter_def == gen.filters[filter_id]
             parameters == IF "parameters" \in DOMAIN filter_def
                           THEN filter_def.parameters ELSE <<>>
         IN  IF params # NoneDict /\ DOMAIN params # {} /\ parameters # <<>>
             THEN ReplaceParameters(filter_def.condition, parameters, 1, params)
             ELSE filter_def.condition

\* SQLGenerator.expand_metric
expand_metric(gen, metric_id) ==
    IF metric_id \notin DOMAIN gen.metrics THEN metric_id
    ELSE gen.metrics[metric_id].expression

(***************************************************************************)
(* ContextValidator                                                        *)
(***************************************************************************)
\* d.get(key)
Get(d, key) == IF key \in DOMAIN d THEN d[key] ELSE PyNone

\* d.get(key, default)
GetOr(d, key, default) == IF key \in DOMAIN d THEN d[key] ELSE default

\* an exception leaving validate
Raised(exc) == [raised |-> exc]
IsRaised(w) == "raised" \in DOMAIN w

\* a string that Python treats as true: neither None nor empty
StrTruthy(x) == x # PyNone /\ x # ""

\* str() of a value inside an f-string
Str(x) == IF x = PyNone THEN "None" ELSE x

\* uuid.UUID(s): the spellings it accepts and the canonical str() of each;
\* any other string raises ValueError
UuidSpellings ==
    [s \in {"0a", "0A", "0b", "0B", "0c", "0C", "0d", "0D", "0e", "0E",
            "0f", "0F"} |->
        CASE s \in {"0a", "0A"} -> "0a"
          [] s \in {"0b", "0B"} -> "0b"
          [] s \in {"0c", "0C"} -> "0c"
          [] s \in {"0d", "0D"} -> "0d"
          [] s \in {"0e", "0E"} -> "0e"
          [] s \in {"0f", "0F"} -> "0f"]

IsUuid(s) == s \in DOMAIN UuidSpellings

\* ContextValidator._validate_schema
validate_schema(ctx, v) ==
    LET name == ctx.name
        v1 == IF name = "" \/ Len(name) < 3 \/ Len(name) > 100
              THEN add_error(v, "INVALID_NAME",
                       "Context name must be 3-100 characters, got: "
                           \o ToString(Len(name)),
                       "name", NoneDict)
              ELSE v
        description == ctx.description
        v2 == IF description = "" \/ Len(description) < 10
              THEN add_error(v1, "INVALID_DESCRIPTION",
                       "Description must be at least 10 characters, got: "
                           \o ToString(Len(description)),
                       "description", NoneDict)
              ELSE v1
    IN  IF ctx.context_type \notin {"single_dataset", "multi_dataset"}
        THEN add_error(v2, "INVALID_CONTEXT_TYPE",
                 "Invalid context_type: " \o Str(ctx.context_type),
                 "context_type", NoneDict)
        ELSE v2

\* _validate_semantics, the first loop: dataset ids that are missing or are
\* no UUID
RECURSIVE CheckDatasetIds(_, _, _)
CheckDatasetIds(datasets, i, v) ==
    IF i > Len(datasets) THEN v
    ELSE LET ds_def == datasets[i]
             dataset_id_str == Get(ds_def, "dataset_id")
         IN  IF ~StrTruthy(dataset_id_str)
             THEN CheckDatasetIds(datasets, i + 1,
                      add_error(v, "MISSING_DATASET_ID",
                          "Dataset '" \o Str(Get(ds_def, "id")) \o "' missing dataset_id",
                          "datasets", NoneDict))
             ELSE IF ~IsUuid(dataset_id_str)
             THEN CheckDatasetIds(datasets, i + 1,
                      add_error(v, "INVALID_DATASET_ID",
                          "Invalid UUID for dataset '" \o Str(Get(ds_def, "id"))
                              \o "': " \o dataset_id_str,
                          "datasets", NoneDict))
             ELSE CheckDatasetIds(datasets, i + 1, v)

\* the UUIDs the first loop collects in dataset_ids
CollectedDatasetIds(datasets) ==
    {UuidSpellings[Get(datasets[i], "dataset_id")] :
        i \in {j \in 1..Len(datasets) : IsUuid(Get(datasets[j], "dataset_id"))}}

\* select(Dataset).where(Dataset.id.in_(dataset_ids),
\*                       Dataset.user_id == self.user_id), as str(ds.id)
ExistingIds(vtor, dataset_ids) ==
    {id \in dataset_ids \cap DOMAIN vtor.db :
        vtor.db[id].user_id = vtor.user_id}

\* _validate_semantics, the second loop: datasets the query did not return
RECURSIVE CheckMissingDatasets(_, _, _, _)
CheckMissingDatasets(datasets, existing_ids, i, v) ==
    IF i > Len(datasets) THEN v
    ELSE LET ds_def == datasets[i]
             ds_id == Get(ds_def, "dataset_id")
         IN  IF ds_id \notin existing_ids
             THEN CheckMissingDatasets(datasets, existing_ids, i + 1,
                      add_error(v, "DATASET_NOT_FOUND",
                          "Dataset '" \o Str(Get(ds_def, "name")) \o "' with ID "
                              \o Str(ds_id) \o " not found or not owned by user",
                          "datasets", [dataset_id |-> ds_id]))
             ELSE CheckMissingDatasets(datasets, existing_ids, i + 1, v)

\* a dict that Python treats as true: neither None nor empty
DictTruthy(x) == x # NoneDict /\ x # EmptyDict

\* [c["name"] for c in schema.get("columns", [])]
ColumnNames(schema) ==
    IF "columns" \in DOMAIN schema
    THEN {schema.columns[i].name : i \in 1..Len(schema.columns)}
    ELSE {}

\* dataset_schemas.get(real_id, {})
SchemaOf(dataset_schemas, real_id) ==
    IF real_id \in DOMAIN dataset_schemas THEN dataset_schemas[real_id]
    ELSE EmptyDict

\* one side of one condition of _validate_column_references
CheckColumn(rel, ds_id, schema, col, v) ==
    IF DictTruthy(schema) /\ StrTruthy(col) /\ col \notin ColumnNames(schema)
    THEN add_error(v, "COLUMN_NOT_FOUND",
             "Column '" \o col \o "' not found in dataset '" \o ds_id \o "'",
             "relationships",
             [relationship |-> Get(rel, "id"), dataset |-> ds_id, column |-> col])
    ELSE v

\* _validate_column_references, the loop over the conditions of a relationship
RECURSIVE CheckConditions(_, _, _, _, _)
CheckConditions(rel, left_schema, right_schema, i, v) ==
    IF i > Len(GetOr(rel, "conditions", <<>>)) THEN v
    ELSE LET condition == GetOr(rel, "conditions", <<>>)[i]
             v1 == CheckColumn(rel, Get(rel, "left_dataset"), left_schema,
                               Get(condition, "left_column"), v)
             v2 == CheckColumn(rel, Get(rel, "right_dataset"), right_schema,
                               Get(condition, "right_column"), v1)
         IN  CheckConditions(rel, left_schema, right_schema, i + 1, v2)

\* _validate_column_references, the loop over the relationships
RECURSIVE CheckColumnReferences(_, _, _, _, _)
CheckColumnReferences(rels, dataset_id_map, dataset_schemas, i, v) ==
    IF i > Len(rels) THEN v
    ELSE LET rel == rels[i]
             left_ds_id == Get(rel, "left_dataset")
             right_ds_id == Get(rel, "right_dataset")
             unknown(ds_id) ==
                 add_error(v, "UNKNOWN_DATASET_IN_RELATIONSHIP",
                     "Relationship '" \o Str(Get(rel, "id"))
                         \o "' references unknown dataset: " \o Str(ds_id),
                     "relationships", NoneDict)
         IN  IF left_ds_id \notin DOMAIN dataset_id_map
             THEN CheckColumnReferences(rels, dataset_id_map, dataset_schemas,
                                        i + 1, unknown(left_ds_id))
             ELSE IF right_ds_id \notin DOMAIN dataset_id_map
             THEN CheckColumnReferences(rels, dataset_id_map, dataset_schemas,
                                        i + 1, unknown(right_ds_id))
             ELSE CheckColumnReferences(rels, dataset_id_map, dataset_schemas,
                      i + 1,
                      CheckConditions(rel,
                          SchemaOf(dataset_schemas,
                                   dataset_id_map[left_ds_id].dataset_id),
                          SchemaOf(dataset_schemas,
                                   dataset_id_map[right_ds_id].dataset_id),
                          1, v))

\* ContextValidator._validate_column_references
validate_column_references(ctx, dataset_schemas, v) ==
    IF ctx.relationships = <<>> THEN v
    ELSE CheckColumnReferences(ctx.relationships, DictById(ctx.datasets),
                               dataset_schemas, 1, v)

\* ContextValidator._validate_semantics
validate_semantics(vtor, ctx, v) ==
    LET datasets == ctx.datasets
        v1 == CheckDatasetIds(datasets, 1, v)
        dataset_ids == CollectedDatasetIds(datasets)
        existing_ids == ExistingIds(vtor, dataset_ids)
        dataset_schemas ==
            IF dataset_ids # {}
            THEN [id \in existing_ids |-> vtor.db[id].schema]
            ELSE EmptyDict
        v2 == IF dataset_ids # {}
              THEN CheckMissingDatasets(datasets, existing_ids, 1, v1)
              ELSE v1
    IN  validate_column_references(ctx, dataset_schemas, v2)

\* _validate_relationships, the loop over the join types
RECURSIVE CheckJoinTypes(_, _, _)
CheckJoinTypes(rels, i, v) ==
    IF i > Len(rels) THEN v
    ELSE LET rel == rels[i]
             join_type == Get(rel, "join_type")
         IN  IF join_type \notin {"inner", "left", "right", "outer"}
             THEN CheckJoinTypes(rels, i + 1,
                      add_error(v, "INVALID_JOIN_TYPE",
                          "Invalid join_type in relationship '" \o Str(Get(rel, "id"))
                              \o "': " \o Str(join_type),
                          "relationships", NoneDict))
             ELSE CheckJoinTypes(rels, i + 1, v)

\* _detect_circular_dependencies, the adjacency list: one key per left
\* dataset, in the order the left datasets first occur
RECURSIVE GraphKeys(_, _, _)
GraphKeys(rels, i, keys) ==
    IF i > Len(rels) THEN keys
    ELSE IF Get(rels[i], "left_dataset") \in Range(keys)
    THEN GraphKeys(rels, i + 1, keys)
    ELSE GraphKeys(rels, i + 1, Append(keys, Get(rels[i], "left_dataset")))

\* graph.get(node, [])
Successors(rels, node) ==
    {Get(rels[i], "right_dataset") :
        i \in {j \in 1..Len(rels) : Get(rels[j], "left_dataset") = node}}

NoCycle == [found |-> FALSE, cycle |-> <<>>]

\* a neighbour counts as closing a cycle as soon as it was visited
ClosesCycleIfVisited(neighbor, rec_stack) == TRUE

\* elif neighbor in rec_stack
ClosesCycle(neighbor, rec_stack) == neighbor \in rec_stack

\* has_cycle: every outcome it can have, the neighbours of a node being a
\* set that Python iterates in an order of its own.  An outcome is the
\* cycle returned (or None) with visited and rec_stack as the call left them.
RECURSIVE has_cycle(_, _, _, _), VisitNeighbors(_, _, _, _, _)
has_cycle(rels, node, visited, rec_stack) ==
    VisitNeighbors(rels, node, Successors(rels, node),
                   visited \cup {node}, rec_stack \cup {node})

VisitNeighbors(rels, node, todo, visited, rec_stack) ==
    IF todo = {}
    THEN {[ret |-> NoCycle, visited |-> visited,
           rec_stack |-> rec_stack \ {node}]}
    ELSE UNION {
        IF neighbor \notin visited
        THEN UNION {
                 IF o.ret.found
                 THEN {[o EXCEPT !.ret.cycle = <<node>> \o @]}
                 ELSE VisitNeighbors(rels, node, todo \ {neighbor},
                                     o.visited, o.rec_stack) :
                 o \in has_cycle(rels, neighbor, visited, rec_stack)}
        ELSE IF ClosesCycle(neighbor, rec_stack)
        THEN {[ret |-> [found |-> TRUE, cycle |-> <<node, neighbor>>],
               visited |-> visited, rec_stack |-> rec_stack]}
        ELSE VisitNeighbors(rels, node, todo \ {neighbor}, visited, rec_stack) :
        neighbor \in todo}

\* the separator the message joins the cycle with (the source spells an
\* arrow here); str.join raises TypeError on a None in the cycle
CycleArrow == " -> "

\* _detect_circular_dependencies, the loop over the keys of the graph: every
\* result it can leave, the first cycle found ending the loop
RECURSIVE DetectLoop(_, _, _, _, _)
DetectLoop(rels, keys, i, visited, v) ==
    IF i > Len(keys) THEN {v}
    ELSE IF keys[i] \in visited THEN DetectLoop(rels, keys, i + 1, visited, v)
    ELSE UNION {
             IF o.ret.found /\ PyNone \in Range(o.ret.cycle)
             THEN {Raised("TypeError")}
             ELSE IF o.ret.found
             THEN {add_error(v, "CIRCULAR_DEPENDENCY",
                       "Circular dependency detected in relationships: "
                           \o JoinStr(CycleArrow, o.ret.cycle),
                       "relationships", [cycle |-> o.ret.cycle])}
             ELSE DetectLoop(rels, keys, i + 1, o.visited, v) :
             o \in has_cycle(rels, keys[i], visited, {})}

\* ContextValidator._detect_circular_dependencies
detect_circular_dependencies(rels, v) ==
    DetectLoop(rels, GraphKeys(rels, 1, <<>>), 1, {}, v)

\* ContextValidator._check_duplicate_relationships
RECURSIVE check_duplicate_relationships(_, _, _, _)
check_duplicate_relationships(rels, i, seen_pairs, v) ==
    IF i > Len(rels) THEN v
    ELSE LET left == Get(rels[i], "left_dataset")
             right == Get(rels[i], "right_dataset")
             pair == <<left, right>>
         IN  check_duplicate_relationships(rels, i + 1, seen_pairs \cup {pair},
                 IF pair \in seen_pairs
                 THEN add_warning(v, "DUPLICATE_RELATIONSHIP",
                          "Duplicate relationship between '" \o Str(left)
                              \o "' and '" \o Str(right) \o "'",
                          "relationships", [left |-> left, right |-> right])
                 ELSE v)

\* ContextValidator._validate_relationships: every result it can leave
validate_relationships(ctx, v) ==
    IF ctx.relationships = <<>>
    THEN {add_warning(v, "NO_RELATIONSHIPS",
              "Multi-dataset context has no relationships defined",
              "relationships", NoneDict)}
    ELSE {IF IsRaised(w) THEN w
          ELSE check_duplicate_relationships(ctx.relationships, 1, {}, w) :
            w \in detect_circular_dependencies(ctx.relationships,
                      CheckJoinTypes(ctx.relationships, 1, v))}

\* a text as the sequence of its characters; None where a text is optional
NoneText == <<PyNone>>
Whitespace == {" ", "\t", "\n"}

\* str.strip()
RECURSIVE LStrip(_)
LStrip(text) ==
    IF text # <<>> /\ Head(text) \in Whitespace THEN LStrip(Tail(text))
    ELSE text

RECURSIVE RStrip(_)
RStrip(text) ==
    IF text # <<>> /\ text[Len(text)] \in Whitespace
    THEN RStrip(SubSeq(text, 1, Len(text) - 1))
    ELSE text

Strip(text) == RStrip(LStrip(text))

\* _validate_business_rules, the loop over the rules; a rule whose condition
\* is None has no strip() and the loop raises AttributeError
RECURSIVE CheckRules(_, _, _)
CheckRules(rules, i, v) ==
    IF i > Len(rules) THEN v
    ELSE LET rule == rules[i]
             severity == Get(rule, "severity")
             v1 == IF severity \notin {"error", "warning", "info"}
                   THEN add_error(v, "INVALID_SEVERITY",
                            "Invalid severity in rule '" \o Str(Get(rule, "id"))
                                \o "': " \o Str(severity),
                            "business_rules", NoneDict)
                   ELSE v
             rule_type == Get(rule, "rule_type")
             v2 == IF rule_type \notin {"validation", "quality", "constraint"}
                   THEN add_error(v1, "INVALID_RULE_TYPE",
                            "Invalid rule_type in rule '"
                                \o Str(Get(rule, "id")) \o "': "
                                \o Str(rule_type),
                            "business_rules", NoneDict)
                   ELSE v1
             condition == GetOr(rule, "condition", <<>>)
         IN  IF condition = NoneText THEN Raised("AttributeError")
             ELSE CheckRules(rules, i + 1,
                      IF Strip(condition) = <<>>
                      THEN add_error(v2, "EMPTY_RULE_CONDITION",
                               "Rule '" \o Str(Get(rule, "id"))
                                   \o "' has empty condition",
                               "business_rules", NoneDict)
                      ELSE v2)

\* a last pass that is skipped once the result has failed
validate_business_rules_unless_failed(ctx, v) ==
    IF ~v.passed \/ ctx.business_rules = <<>> THEN v
    ELSE CheckRules(ctx.business_rules, 1, v)

\* ContextValidator._validate_business_rules
validate_business_rules(ctx, v) ==
    IF ctx.business_rules = <<>> THEN v
    ELSE CheckRules(ctx.business_rules, 1, v)

\* ContextValidator.validate: every outcome it can have, a ValidationResult
\* or an exception.  A list the document leaves out (None) is modelled as the
\* empty list: every level tests it with `not`.
validate(vtor, ctx) ==
    LET v1 == validate_schema(ctx, NewValidationResult)
        v2 == validate_semantics(vtor, ctx, v1)
        level3 == IF ctx.context_type = "multi_dataset"
                  THEN validate_relationships(ctx, v2)
                  ELSE {v2}
    IN  {IF IsRaised(w) THEN w ELSE validate_business_rules(ctx, w) :
            w \in level3}

(***************************************************************************)
(* Inputs.                                                                 *)
(***************************************************************************)
JoinCondition(l, o, r) ==
    [left_column |-> l, operator |-> o, right_column |-> r]

\* the two column names differ, so that swapping them shows
KeyCondition == JoinCondition("id", "=", "ref_id")

PlainRelationship(rel_id, left, right) ==
    [id |-> rel_id, left_dataset |-> left, right_dataset |-> right,
     join_type |-> "inner", conditions |-> <<KeyCondition>>]

\* relationship lists whose ids are pairwise distinct (r1, r2, ... in
\* declaration order), over every choice of endpoints, self-joins and
\* parallel relationships included
UniqueIdLists(n) ==
    UNION {{[i \in 1..k |->
                PlainRelationship(RelIdNames[i], ends[i][1], ends[i][2])] :
            ends \in [1..k -> Datasets \X Datasets]} : k \in 0..n}

\* relationship lists whose ids are whatever the author wrote: nothing in
\* the parser or the validator rejects a repeated relationship id
FreeIdLists(n) ==
    SeqsUpTo({PlainRelationship(rel_id, l, r) :
                 rel_id \in RelIds, l \in Datasets, r \in Datasets}, n)

DepthArgs == 0..MaxDepthArg

(***************************************************************************)
(* Operations of a resolver built over a relationship list.                *)
(***************************************************************************)
\* a context that declares the datasets of the list `ids`, each with or
\* without an alias
AliasNames == <<"a", "b", "c", "d", "e", "f">>

DatasetEntry(i, aliased) ==
    IF aliased
    THEN [id |-> DatasetNames[i], name |-> DatasetNames[i],
          alias |-> AliasNames[i]]
    ELSE [id |-> DatasetNames[i], name |-> DatasetNames[i]]

Context(n, aliased) ==
    [datasets |-> [i \in 1..n |-> DatasetEntry(i, aliased)],
     metrics |-> <<>>, filters |-> <<>>]

EmptyContext == Context(0, FALSE)

\* no document is being validated
NoValidation ==
    /\ parsed_context = NoneDict
    /\ validator = [db |-> EmptyDict, user_id |-> PyNone]
    /\ validation = NewValidationResult
    /\ calls = [add_error |-> 0, add_warning |-> 0]

InitResolverWith(rels, context) ==
    /\ relationships = rels
    /\ graph = build_graph(rels)
    /\ generator = SQLGenerator(context)
    /\ NoValidation
    /\ op = "init"
    /\ args = <<>>
    /\ result = None

InitResolver(rels) == InitResolverWith(rels, EmptyContext)

FindJoinPath(depths) ==
    \E from_dataset \in Datasets, to_dataset \in Datasets, max_depth \in depths :
        /\ op = "init"
        /\ op' = "find_join_path"
        /\ args' = [from_dataset |-> from_dataset, to_dataset |-> to_dataset,
                    max_depth |-> max_depth]
        /\ result' = find_join_path(graph, from_dataset, to_dataset, max_depth)
        /\ UNCHANGED <<relationships, graph, generator, parsed_context, validator,
                       validation, calls>>

FindJoinPathMulti(depths) ==
    \E dataset_ids \in SeqsUpTo(Datasets, MaxRequired), max_depth \in depths :
        /\ op = "init"
        /\ op' = "find_join_path_multi"
        /\ args' = [dataset_ids |-> dataset_ids, max_depth |-> max_depth]
        /\ result' \in find_join_path_multi(graph, dataset_ids, max_depth)
        /\ UNCHANGED <<relationships, graph, generator, parsed_context, validator,
                       validation, calls>>

(***************************************************************************)
(* Specification Spec: point-to-point search over a resolver.              *)
(***************************************************************************)
Init == \E rels \in UniqueIdLists(MaxRels) : InitResolver(rels)

SearchPath == FindJoinPath(DepthArgs \cup {DefaultMaxDepth})

Next == SearchPath

Spec == Init /\ [][Next]_vars

(***************************************************************************)
(* What the claims speak of, defined from the relationship list alone      *)
(* (never from the adjacency lists or the search).                         *)
(***************************************************************************)
\* a large number standing for "no path"
Infinity == NumDatasets + MaxRels + DefaultMaxDepthMulti

Min(a, b) == IF a <= b THEN a ELSE b

\* datasets one relationship away from u, the relationship taken in either
\* direction
Neighbours(u) ==
    {relationships[i].right_dataset :
        i \in {j \in 1..Len(relationships) : relationships[j].left_dataset = u}}
    \cup
    {relationships[i].left_dataset :
        i \in {j \in 1..Len(relationships) : relationships[j].right_dataset = u}}

\* datasets at most k relationships away from the datasets of S
RECURSIVE Within(_, _)
Within(S, k) ==
    IF k = 0 THEN S
    ELSE Within(S \cup UNION {Neighbours(u) : u \in S}, k - 1)

\* undirected distance in relationships, Infinity when unconnected
Distance(u, v) ==
    LET ks == {k \in 0..Len(relationships) : v \in Within({u}, k)}
    IN  IF ks = {} THEN Infinity
        ELSE CHOOSE k \in ks : \A m \in ks : k <= m

\* the datasets that occur in the relationship list
Occurring ==
    {relationships[i].left_dataset : i \in 1..Len(relationships)} \cup
    {relationships[i].right_dataset : i \in 1..Len(relationships)}

\* the dataset an edge of a path leaves from, and the one it arrives at,
\* read off its relationship and direction
EdgeFrom(e) ==
    IF e.reverse THEN e.relationship.right_dataset
    ELSE e.relationship.left_dataset

EdgeTo(e) ==
    IF e.reverse THEN e.relationship.left_dataset
    ELSE e.relationship.right_dataset

\* a contiguous walk from u to v
IsWalk(path, u, v) ==
    /\ path /= <<>>
    /\ EdgeFrom(path[1]) = u
    /\ EdgeTo(path[Len(path)]) = v
    /\ \A i \in 1..Len(path) : path[i].to = EdgeTo(path[i])
    /\ \A i \in 1..(Len(path) - 1) : EdgeTo(path[i]) = EdgeFrom(path[i + 1])

\* A step of a walk is a relationship (by position) and a direction.  The
\* steps that leave u, numbered in declaration order: relationship i gives
\* step 2i forward and step 2i+1 in reverse.
StepsFrom(u) ==
    {2 * i : i \in {j \in 1..Len(relationships) :
                        relationships[j].left_dataset = u}}
    \cup
    {2 * i + 1 : i \in {j \in 1..Len(relationships) :
                        relationships[j].right_dataset = u}}

StepRel(s) == relationships[s \div 2]
StepReverse(s) == s % 2 = 1
StepTo(s) ==
    IF StepReverse(s) THEN StepRel(s).left_dataset
    ELSE StepRel(s).right_dataset

\* all walks of exactly k steps from u, as sequences of steps
RECURSIVE WalksFrom(_, _)
WalksFrom(u, k) ==
    IF k = 0 THEN {<<>>}
    ELSE UNION {{<<s>> \o w : w \in WalksFrom(StepTo(s), k - 1)} :
                s \in StepsFrom(u)}

WalkEnd(u, w) == IF w = <<>> THEN u ELSE StepTo(w[Len(w)])

\* the steps of a returned path
StepOf(e) ==
    LET i == CHOOSE j \in 1..Len(relationships) :
                 relationships[j] = e.relationship
    IN  IF e.reverse THEN 2 * i + 1 ELSE 2 * i

PathSteps(path) == [i \in 1..Len(path) |-> StepOf(path[i])]

\* v comes no later than w in breadth-first order: the first step that
\* differs is the earlier declared one
RECURSIVE LexLeq(_, _)
LexLeq(v, w) ==
    IF v = <<>> \/ w = <<>> THEN TRUE
    ELSE IF Head(v) < Head(w) THEN TRUE
    ELSE IF Head(v) > Head(w) THEN FALSE
    ELSE LexLeq(Tail(v), Tail(w))

\* the walks of least length from u to v
ShortestWalks(u, v) ==
    IF Distance(u, v) = Infinity THEN {}
    ELSE {w \in WalksFrom(u, Distance(u, v)) : WalkEnd(u, w) = v}

Called(name) == op = name

(***************************************************************************)
(* C1.  Whenever find_join_path(from, to) returns a path for two distinct  *)
(* datasets that occur in the relationship list, the path is a contiguous  *)
(* walk from `from` to `to`, it has as few edges as any connection of the  *)
(* two in the graph traversed in both directions, and among the shortest   *)
(* walks it is the first in breadth-first order (neighbours in declaration *)
(* order).                                                                 *)
(***************************************************************************)
C1_ShortestWalkFirstInBfsOrder ==
    (/\ Called("find_join_path")
     /\ args.from_dataset /= args.to_dataset
     /\ {args.from_dataset, args.to_dataset} \subseteq Occurring
     /\ result.found)
    => /\ IsWalk(result.path, args.from_dataset, args.to_dataset)
       /\ \A i \in 1..Len(result.path) :
              result.path[i].relationship \in Range(relationships)
       /\ Len(result.path) = Distance(args.from_dataset, args.to_dataset)
       /\ \A w \in ShortestWalks(args.from_dataset, args.to_dataset) :
              LexLeq(PathSteps(result.path), w)

\* a two-edge path was returned where another shortest walk exists
C1_Witness ==
    /\ Called("find_join_path")
    /\ result.found
    /\ Len(result.path) = 2
    /\ Cardinality(ShortestWalks(args.from_dataset, args.to_dataset)) >= 2

(***************************************************************************)
(* C2.  For distinct from/to, find_join_path(from, to, maxDepth) returns a *)
(* path iff the undirected distance d between them satisfies               *)
(* 1 <= d <= maxDepth, and a returned path never has more than maxDepth    *)
(* edges; with A->B and B->C only, (A, C) gives a 2-edge path and          *)
(* (A, C, maxDepth = 1) gives not-found.                                   *)
(***************************************************************************)
C2_PathIffWithinMaxDepth ==
    (/\ Called("find_join_path")
     /\ args.from_dataset /= args.to_dataset)
    => LET d == Distance(args.from_dataset, args.to_dataset)
       IN  /\ result.found <=> (1 <= d /\ d <= args.max_depth)
           /\ result.found => Len(result.path) <= args.max_depth
           /\ ~result.found => result = None
           /\ (/\ Len(relationships) = 2
               /\ relationships[1].left_dataset = "A"
               /\ relationships[1].right_dataset = "B"
               /\ relationships[2].left_dataset = "B"
               /\ relationships[2].right_dataset = "C"
               /\ args.from_dataset = "A" /\ args.to_dataset = "C")
              => /\ args.max_depth = DefaultMaxDepth
                    => result.found /\ Len(result.path) = 2
                 /\ args.max_depth = 1 => ~result.found

\* the depth limit cut a search short: the datasets are two relationships
\* apart and max_depth is 1
C2_Witness ==
    /\ Called("find_join_path")
    /\ Distance(args.from_dataset, args.to_dataset) = 2
    /\ args.max_depth = 1
    /\ ~result.found

(***************************************************************************)
(* Specification SpecMulti: both searches, over relationship lists whose   *)
(* ids are as the author wrote them.                                       *)
(***************************************************************************)
InitMulti == \E rels \in FreeIdLists(MaxRels) : InitResolver(rels)

SearchMulti == FindJoinPathMulti(DepthArgs \cup {DefaultMaxDepthMulti})

NextMulti == SearchPath \/ SearchMulti

SpecMulti == InitMulti /\ [][NextMulti]_vars

\* the datasets the edges of a path touch
PathNodes(path) ==
    {EdgeFrom(path[i]) : i \in 1..Len(path)} \cup
    {EdgeTo(path[i]) : i \in 1..Len(path)}

\* datasets joined to those of S by edges of the path, in either direction
RECURSIVE PathClosure(_, _, _)
PathClosure(path, S, k) ==
    IF k = 0 THEN S
    ELSE PathClosure(path,
             S \cup {EdgeTo(path[i]) :
                        i \in {j \in 1..Len(path) : EdgeFrom(path[j]) \in S}}
               \cup {EdgeFrom(path[i]) :
                        i \in {j \in 1..Len(path) : EdgeTo(path[j]) \in S}},
             k - 1)

\* the relationships of the path form one connected subgraph
PathConnected(path) ==
    \A u \in PathNodes(path) : PathClosure(path, {u}, Len(path)) = PathNodes(path)

DistinctRelationshipIds(path) ==
    \A i, j \in 1..Len(path) :
        i /= j => path[i].relationship.id /= path[j].relationship.id

\* required datasets that can be linked to those of S by hops of at most
\* max_depth relationships between required datasets
RECURSIVE Linked(_, _, _, _)
Linked(required, S, max_depth, k) ==
    IF k = 0 THEN S
    ELSE Linked(required,
             S \cup {v \in required :
                        \E u \in S : Distance(u, v) <= max_depth},
             max_depth, k - 1)

AllLinked(dataset_ids, max_depth) ==
    Range(dataset_ids) \subseteq
        Linked(Range(dataset_ids), {dataset_ids[1]}, max_depth,
               Len(dataset_ids))

(***************************************************************************)
(* C3.  Whenever find_join_path_multi returns a path for a list of two or  *)
(* more required dataset ids, the relationships of the path form one       *)
(* connected subgraph (edges taken as undirected) that contains every      *)
(* required dataset.                                                       *)
(***************************************************************************)
C3_PathConnectsEveryRequired ==
    (/\ Called("find_join_path_multi")
     /\ Len(args.dataset_ids) >= 2
     /\ result.found)
    => /\ Range(args.dataset_ids) \subseteq PathNodes(result.path)
       /\ PathConnected(result.path)

(***************************************************************************)
(* C4.  Every join path returned by find_join_path or                      *)
(* find_join_path_multi, for any relationship list and any arguments,      *)
(* contains no two edges with the same relationship id.                    *)
(***************************************************************************)
C4_NoDuplicateRelationshipIds ==
    (/\ Called("find_join_path") \/ Called("find_join_path_multi")
     /\ result.found)
    => DistinctRelationshipIds(result.path)

(***************************************************************************)
(* C5.  For a list of two or more required dataset ids,                    *)
(* find_join_path_multi returns not-found exactly when at some step no     *)
(* path within max_depth leads from a connected dataset to a required one  *)
(* still to connect; whenever every required dataset can be linked to the  *)
(* first one by such paths it returns a path.                              *)
(***************************************************************************)
C5_NotFoundIffUnlinked ==
    (/\ Called("find_join_path_multi")
     /\ Len(args.dataset_ids) >= 2)
    => /\ result.found <=> AllLinked(args.dataset_ids, args.max_depth)
       /\ ~result.found => result = None

(***************************************************************************)
(* C6.  In a star, where a hub has one declared relationship to each of    *)
(* k >= 2 leaves, find_join_path_multi over the k leaves in any order      *)
(* returns exactly k edges with pairwise distinct relationship ids, each   *)
(* with the hub as one endpoint.                                           *)
(***************************************************************************)
\* the endpoint of relationship i that is not the hub
Leaf(i, hub) ==
    IF relationships[i].left_dataset = hub
    THEN relationships[i].right_dataset
    ELSE relationships[i].left_dataset

IsStar(hub) ==
    /\ Len(relationships) >= 2
    /\ \A i \in 1..Len(relationships) :
           /\ hub \in {relationships[i].left_dataset,
                       relationships[i].right_dataset}
           /\ Leaf(i, hub) /= hub
    /\ \A i, j \in 1..Len(relationships) :
           i /= j => Leaf(i, hub) /= Leaf(j, hub)

Leaves(hub) == {Leaf(i, hub) : i \in 1..Len(relationships)}

C6_StarGivesOneEdgePerLeaf ==
    \A hub \in Datasets :
        (/\ Called("find_join_path_multi")
         /\ IsStar(hub)
         /\ Len(args.dataset_ids) = Len(relationships)
         /\ Range(args.dataset_ids) = Leaves(hub)
         /\ args.max_depth = DefaultMaxDepthMulti)
        => /\ result.found
           /\ Len(result.path) = Len(relationships)
           /\ DistinctRelationshipIds(result.path)
           /\ \A i \in 1..Len(result.path) :
                  hub \in {EdgeFrom(result.path[i]), EdgeTo(result.path[i])}

(***************************************************************************)
(* Specification SpecSql: a path found by the resolver is handed to the    *)
(* SQL generator of the same context.                                      *)
(***************************************************************************)
\* the context declares no dataset, or every dataset without an alias, or
\* every dataset with one
Contexts ==
    {EmptyContext, Context(NumDatasets, FALSE), Context(NumDatasets, TRUE)}

\* the arguments of generate_multi_dataset_query besides the join path
QueryArgs ==
    {[select_columns |-> <<"*">>, where_clauses |-> <<>>, group_by |-> <<>>,
      order_by |-> <<>>, limit |-> 0],
     [select_columns |-> <<"A.id", "B.id">>, where_clauses |-> <<"A.id > 0">>,
      group_by |-> <<"A.id", "B.id">>, order_by |-> <<"A.id">>, limit |-> 10]}

InitSql ==
    \E rels \in UniqueIdLists(MaxRels), context \in Contexts :
        InitResolverWith(rels, context)

SearchPathDefault == FindJoinPath({DefaultMaxDepth})

SearchMultiDefault == FindJoinPathMulti({DefaultMaxDepthMulti})

GenerateMultiDatasetQuery ==
    \E q \in QueryArgs :
        /\ op \in {"find_join_path", "find_join_path_multi"}
        /\ result.found
        /\ op' = "generate_multi_dataset_query"
        /\ args' = [select_columns |-> q.select_columns,
                    join_path |-> result.path,
                    where_clauses |-> q.where_clauses,
                    group_by |-> q.group_by,
                    order_by |-> q.order_by,
                    limit |-> q.limit]
        /\ result' = generate_multi_dataset_query(generator, args')
        /\ UNCHANGED <<relationships, graph, generator, parsed_context, validator,
                       validation, calls>>

NextSql == SearchPathDefault \/ SearchMultiDefault \/ GenerateMultiDatasetQuery

SpecSql == InitSql /\ [][NextSql]_vars

\* the declared relationship of an id (ids are pairwise distinct here)
DeclaredById(rel_id) ==
    CHOOSE r \in Range(relationships) : r.id = rel_id

ReturnedPath ==
    /\ Called("find_join_path") \/ Called("find_join_path_multi")
    /\ result.found

Qualified(ds_id, column) == AliasOf(generator, ds_id) \o "." \o column

ExpectedJoinLine(edge) ==
    LET declared == DeclaredById(edge.relationship.id)
        L == declared.left_dataset
        R == declared.right_dataset
        cond == declared.conditions[1]
    IN  IF edge.reverse
        THEN Upper(declared.join_type) \o " JOIN " \o L \o " AS "
             \o AliasOf(generator, L) \o " ON "
             \o Qualified(R, cond.right_column) \o " " \o cond.operator \o " "
             \o Qualified(L, cond.left_column)
        ELSE Upper(declared.join_type) \o " JOIN " \o R \o " AS "
             \o AliasOf(generator, R) \o " ON "
             \o Qualified(L, cond.left_column) \o " " \o cond.operator \o " "
             \o Qualified(R, cond.right_column)

C8_ReverseJoinSwapsColumnsOnce ==
    Called("generate_multi_dataset_query")
    => \A i \in 1..Len(args.join_path) :
           result[Len(args.select_columns) + 1 + i]
               = ExpectedJoinLine(args.join_path[i])

\* a query was generated over a path that holds a reverse edge
C8_Witness ==
    /\ Called("generate_multi_dataset_query")
    /\ \E i \in 1..Len(args.join_path) : args.join_path[i].reverse
    /\ \E i \in 1..Len(args.join_path) : ~args.join_path[i].reverse
    /\ "A" \in DOMAIN generator.datasets
    /\ "alias" \in DOMAIN generator.datasets["A"]

(***************************************************************************)
(* Specification SpecResult: add_error, add_warning, get_status and        *)
(* to_dict on a fresh ValidationResult.                                    *)
(***************************************************************************)
IssueCodes == {"TEST_ERROR", "TEST_WARNING"}
IssueFields == {PyNone, "test_field"}
IssueDetails == {NoneDict, [dataset_id |-> "x"]}

InitResult ==
    /\ relationships = <<>>
    /\ graph = build_graph(<<>>)
    /\ generator = SQLGenerator(EmptyContext)
    /\ NoValidation
    /\ op = "init"
    /\ args = <<>>
    /\ result = PyNone

AddError ==
    \E code \in IssueCodes, field \in IssueFields, details \in IssueDetails :
        /\ Len(validation.errors) + Len(validation.warnings) < MaxIssues
        /\ validation' = add_error(validation, code, "Test message", field,
                                   details)
        /\ calls' = [calls EXCEPT !.add_error = @ + 1]
        /\ op' = "add_error"
        /\ args' = [code |-> code, field |-> field, details |-> details]
        /\ result' = PyNone
        /\ UNCHANGED <<relationships, graph, generator, parsed_context,
                       validator>>

AddWarning ==
    \E code \in IssueCodes, field \in IssueFields, details \in IssueDetails :
        /\ Len(validation.errors) + Len(validation.warnings) < MaxIssues
        /\ validation' = add_warning(validation, code, "Test message", field,
                                     details)
        /\ calls' = [calls EXCEPT !.add_warning = @ + 1]
        /\ op' = "add_warning"
        /\ args' = [code |-> code, field |-> field, details |-> details]
        /\ result' = PyNone
        /\ UNCHANGED <<relationships, graph, generator, parsed_context,
                       validator>>

GetStatus ==
    /\ op' = "get_status"
    /\ args' = <<>>
    /\ result' = get_status(validation)
    /\ UNCHANGED <<relationships, graph, generator, parsed_context, validator,
                   validation, calls>>

ToDict ==
    /\ op' = "to_dict"
    /\ args' = <<>>
    /\ result' = to_dict(validation)
    /\ UNCHANGED <<relationships, graph, generator, parsed_context, validator,
                   validation, calls>>

NextResult == AddError \/ AddWarning \/ GetStatus \/ ToDict

SpecResult == InitResult /\ [][NextResult]_vars

(***************************************************************************)
(* C10.  After any sequence of add_error and add_warning calls on a fresh  *)
(* ValidationResult, get_status() is `failed` iff at least one error was   *)
(* added, `warning` iff no error and at least one warning was added, and   *)
(* `passed` iff nothing was added; the passed flag is true iff no error    *)
(* was added; error_count and warning_count are the numbers of add_error   *)
(* and add_warning calls; every recorded issue carries the severity of the *)
(* list it is in.                                                          *)
(***************************************************************************)
C10_StatusFollowsAddedIssues ==
    /\ get_status(validation) = "failed" <=> calls.add_error >= 1
    /\ get_status(validation) = "warning"
           <=> (calls.add_error = 0 /\ calls.add_warning >= 1)
    /\ get_status(validation) = "passed"
           <=> (calls.add_error = 0 /\ calls.add_warning = 0)
    /\ validation.passed <=> calls.add_error = 0
    /\ to_dict(validation).error_count = calls.add_error
    /\ to_dict(validation).warning_count = calls.add_warning
    /\ \A i \in 1..Len(validation.errors) :
           validation.errors[i].severity = "error"
    /\ \A i \in 1..Len(validation.warnings) :
           validation.warnings[i].severity = "warning"
    /\ Called("get_status") => result = get_status(validation)
    /\ Called("to_dict")
           => /\ result.status = get_status(validation)
              /\ result.passed = validation.passed
              /\ result.error_count = calls.add_error
              /\ result.warning_count = calls.add_warning

\* to_dict ran after an error and then a warning were added, as in
\* test_validation_result_structure
C10_Witness ==
    /\ Called("to_dict")
    /\ calls.add_error >= 1
    /\ calls.add_warning >= 1
    /\ result.status = "failed"
    /\ ~result.passed

(***************************************************************************)
(* Specification SpecValidate: ContextValidator.validate on documents      *)
(* whose relationships range over every topology.                          *)
(***************************************************************************)
UuidNames == <<"0a", "0b", "0c", "0d", "0e", "0f">>

KeySchema == [columns |-> <<[name |-> "id"], [name |-> "ref_id"]>>]

\* every dataset of the document exists and belongs to the user
OwnedDatasets ==
    [id \in {UuidNames[i] : i \in 1..NumDatasets} |->
        [user_id |-> "u1", schema |-> KeySchema]]

DocumentDatasets ==
    [i \in 1..NumDatasets |->
        [id |-> DatasetNames[i], name |-> DatasetNames[i],
         dataset_id |-> UuidNames[i]]]

PositiveRule ==
    [id |-> "rule1", severity |-> "error", rule_type |-> "validation",
     condition |-> <<"x", " ", ">", " ", "0">>]

Documents(lists) ==
    {[name |-> "sales", description |-> "Sales analytics",
      context_type |-> context_type, datasets |-> DocumentDatasets,
      relationships |-> rels, business_rules |-> rules] :
        context_type \in {"single_dataset", "multi_dataset"},
        rels \in lists,
        rules \in {<<>>, <<PositiveRule>>}}

InitValidate ==
    /\ relationships = <<>>
    /\ graph = build_graph(<<>>)
    /\ generator = SQLGenerator(EmptyContext)
    /\ parsed_context \in Documents(UniqueIdLists(MaxRels))
    /\ validator = [db |-> OwnedDatasets, user_id |-> "u1"]
    /\ validation = NewValidationResult
    /\ calls = [add_error |-> 0, add_warning |-> 0]
    /\ op = "init"
    /\ args = <<>>
    /\ result = PyNone

Validate ==
    /\ op = "init"
    /\ \E outcome \in validate(validator, parsed_context) :
        /\ result' = outcome
        /\ validation' = IF IsRaised(outcome) THEN validation ELSE outcome
        /\ calls' = IF IsRaised(outcome) THEN calls
                    ELSE [add_error |-> Len(outcome.errors),
                          add_warning |-> Len(outcome.warnings)]
    /\ op' = "validate"
    /\ args' = <<>>
    /\ UNCHANGED <<relationships, graph, generator, parsed_context, validator>>

NextValidate == Validate

SpecValidate == InitValidate /\ [][NextValidate]_vars

\* the relationships of the document under validation
DocRels == parsed_context.relationships

\* y is reached from x by one or more relationships taken left to right
RECURSIVE ReachedIn(_, _, _)
ReachedIn(x, y, k) ==
    IF k = 0 THEN FALSE
    ELSE \E i \in 1..Len(DocRels) :
            /\ DocRels[i].left_dataset = x
            /\ \/ DocRels[i].right_dataset = y
               \/ ReachedIn(DocRels[i].right_dataset, y, k - 1)

HasDirectedCycle == \E x \in Datasets : ReachedIn(x, x, Len(DocRels))

CircularErrors ==
    {i \in 1..Len(validation.errors) :
        validation.errors[i].code = "CIRCULAR_DEPENDENCY"}

TriangleABC ==
    <<PlainRelationship("r1", "A", "B"), PlainRelationship("r2", "B", "C"),
      PlainRelationship("r3", "C", "A")>>

(***************************************************************************)
(* C9.  For a multi-dataset document with at least one relationship,       *)
(* validation reports exactly one CIRCULAR_DEPENDENCY error if the         *)
(* directed graph with an edge left_dataset -> right_dataset per           *)
(* relationship contains a directed cycle, and no CIRCULAR_DEPENDENCY      *)
(* error if that graph is acyclic; for the relationships A->B, B->C, C->A  *)
(* the cycle of the single error contains A, B and C.                      *)
(***************************************************************************)
C9_OneCircularErrorIffDirectedCycle ==
    (/\ Called("validate")
     /\ parsed_context.context_type = "multi_dataset"
     /\ DocRels # <<>>)
    => /\ ~IsRaised(result)
       /\ Cardinality(CircularErrors) = IF HasDirectedCycle THEN 1 ELSE 0
       /\ \A i \in 1..Len(validation.warnings) :
              validation.warnings[i].code # "CIRCULAR_DEPENDENCY"
       /\ DocRels = TriangleABC
              => \A i \in CircularErrors :
                     {"A", "B", "C"} \subseteq
                         Range(validation.errors[i].details.cycle)

\* validate ran on the triangle A->B, B->C, C->A and reported its cycle
C9_Witness ==
    /\ Called("validate")
    /\ parsed_context.context_type = "multi_dataset"
    /\ DocRels = TriangleABC
    /\ Cardinality(CircularErrors) = 1
    /\ \E i \in CircularErrors :
           Range(validation.errors[i].details.cycle) = {"A", "B", "C"}

(***************************************************************************)
(* Specification SpecDefects: ContextValidator.validate on documents that  *)
(* are defective in every way the parser lets through.                     *)
(***************************************************************************)
\* the user owns 0a and 0b; 0c belongs to somebody else
MixedDatasets ==
    [id \in {"0a", "0b", "0c"} |->
        [user_id |-> IF id = "0c" THEN "u2" ELSE "u1", schema |-> KeySchema]]

\* what a document may write as the dataset_id of its first dataset: the
\* id of an owned dataset, the same in capitals, the id of a dataset of
\* another user, a string that is no UUID, and nothing
DatasetIdSpellings == {"0a", "0A", "0c", "not-a-uuid", ""}

DocDataset(id, dataset_id) ==
    [id |-> id, name |-> id, dataset_id |-> dataset_id]

\* a relationship as _extract_relationships_from_markdown builds it
MarkdownRelationship(from_dataset, to_dataset, column) ==
    [id |-> from_dataset \o "_" \o to_dataset,
     name |-> from_dataset \o " to " \o to_dataset,
     type |-> "many_to_one",
     from_dataset |-> from_dataset, from_column |-> column,
     to_dataset |-> to_dataset, to_column |-> column,
     description |-> "Relationship from " \o from_dataset \o " to "
                         \o to_dataset \o " via " \o column]

\* relationships between the declared datasets A and B and the undeclared
\* Z, with a join type that may be invalid, or in the markdown shape
DefectiveRelationships ==
    {[PlainRelationship("r1", l, r) EXCEPT !.join_type = join_type] :
        l \in {"A", "B", "Z"}, r \in {"A", "B", "Z"},
        join_type \in {"inner", "cross"}}
    \cup {MarkdownRelationship("a", "b", "ref_id")}

\* rules: a good one, one with an invalid severity, one with a blank
\* condition, one without a condition, one whose condition is None
DefectiveRules ==
    {PositiveRule,
     [PositiveRule EXCEPT !.severity = "fatal"],
     [PositiveRule EXCEPT !.condition = <<" ", "\t">>],
     [id |-> "rule1", severity |-> "error", rule_type |-> "validation"],
     [PositiveRule EXCEPT !.condition = NoneText]}

\* a multi-dataset document with an invalid name, a dataset of another
\* user, an invalid join type, a cycle, a repeated pair and an invalid
\* severity all at once
ManyDefects ==
    [name |-> "ab", description |-> "Sales analytics",
     context_type |-> "multi_dataset",
     datasets |-> <<DocDataset("A", "0a"), DocDataset("B", "0c")>>,
     relationships |->
         <<[PlainRelationship("r1", "A", "B") EXCEPT !.join_type = "cross"],
           PlainRelationship("r2", "B", "A"),
           PlainRelationship("r3", "A", "B")>>,
     business_rules |-> <<[PositiveRule EXCEPT !.severity = "fatal"]>>]

DefectiveDocuments(max_rels) ==
    {[name |-> name, description |-> "Sales analytics",
      context_type |-> context_type,
      datasets |-> <<DocDataset("A", dataset_id), DocDataset("B", "0b")>>,
      relationships |-> rels, business_rules |-> rules] :
        name \in {"sales", "ab"},
        context_type \in {"single_dataset", "multi_dataset", "bogus"},
        dataset_id \in DatasetIdSpellings,
        rels \in SeqsUpTo(DefectiveRelationships, max_rels),
        rules \in SeqsUpTo(DefectiveRules, 1)}
    \cup {ManyDefects}

InitDefects ==
    /\ relationships = <<>>
    /\ graph = build_graph(<<>>)
    /\ generator = SQLGenerator(EmptyContext)
    /\ parsed_context \in DefectiveDocuments(MaxDocRels)
    /\ validator = [db |-> MixedDatasets, user_id |-> "u1"]
    /\ validation = NewValidationResult
    /\ calls = [add_error |-> 0, add_warning |-> 0]
    /\ op = "init"
    /\ args = <<>>
    /\ result = PyNone

NextDefects == Validate

SpecDefects == InitDefects /\ [][NextDefects]_vars

\* what each pass reports on the document when it starts from a fresh result
FreshSchemaPass == validate_schema(parsed_context, NewValidationResult)
FreshSemanticPass ==
    validate_semantics(validator, parsed_context, NewValidationResult)
FreshRelationshipPass ==
    IF Get(parsed_context, "context_type") = "multi_dataset"
    THEN validate_relationships(parsed_context, NewValidationResult)
    ELSE {NewValidationResult}
FreshRulePass == validate_business_rules(parsed_context, NewValidationResult)

Codes(issues) == {issues[i].code : i \in 1..Len(issues)}

(***************************************************************************)
(* C11.  validate never short-circuits: whenever it returns, the errors    *)
(* and warnings of the result are those of the schema pass, the semantic   *)
(* pass, the relationship pass and the rule pass in this order, each as    *)
(* the pass reports them on a fresh result, whatever the earlier passes    *)
(* reported.  The document with an invalid name, a dataset that cannot be  *)
(* resolved, an invalid join type, a cycle, a repeated pair and a rule     *)
(* with an invalid severity yields INVALID_NAME, DATASET_NOT_FOUND,        *)
(* INVALID_JOIN_TYPE, CIRCULAR_DEPENDENCY and INVALID_SEVERITY errors and  *)
(* a DUPLICATE_RELATIONSHIP warning in one result.                         *)
(***************************************************************************)
C11_EveryPassReportsInOneResult ==
    (Called("validate") /\ ~IsRaised(result))
    => /\ ~IsRaised(FreshRulePass)
       /\ \E r \in FreshRelationshipPass :
              /\ ~IsRaised(r)
              /\ validation.errors =
                     FreshSchemaPass.errors \o FreshSemanticPass.errors
                         \o r.errors \o FreshRulePass.errors
              /\ validation.warnings =
                     FreshSchemaPass.warnings \o FreshSemanticPass.warnings
                         \o r.warnings \o FreshRulePass.warnings
       /\ parsed_context = ManyDefects
              => /\ {"INVALID_NAME", "DATASET_NOT_FOUND", "INVALID_JOIN_TYPE",
                     "CIRCULAR_DEPENDENCY", "INVALID_SEVERITY"}
                        \subseteq Codes(validation.errors)
                 /\ "DUPLICATE_RELATIONSHIP" \in Codes(validation.warnings)

\* validate returned for the document with every defect at once, and the
\* rule pass reported although three passes had reported errors before it
C11_Witness ==
    /\ Called("validate")
    /\ ~IsRaised(result)
    /\ parsed_context = ManyDefects
    /\ Len(validation.errors) >= 5
    /\ validation.errors[Len(validation.errors)].code = "INVALID_SEVERITY"

(***************************************************************************)
(* C12.  validate returns a ValidationResult and never raises, for any     *)
(* parsed document however defective: a dataset entry without its          *)
(* dataset_id, relationships that reference undeclared datasets or lack    *)
(* fields, and malformed rules are reported through issues of the          *)
(* returned result (MISSING_DATASET_ID, UNKNOWN_DATASET_IN_RELATIONSHIP,   *)
(* EMPTY_RULE_CONDITION), also when the document declares relationships.   *)
(***************************************************************************)
C12_ValidateNeverRaises ==
    Called("validate")
    => /\ ~IsRaised(result)
       /\ Get(parsed_context.datasets[1], "dataset_id") = ""
              => "MISSING_DATASET_ID" \in Codes(validation.errors)
       /\ (\E i \in 1..Len(parsed_context.relationships) :
               Get(parsed_context.relationships[i], "left_dataset")
                   \notin {"A", "B"})
              => "UNKNOWN_DATASET_IN_RELATIONSHIP" \in Codes(validation.errors)
       /\ (\E i \in 1..Len(parsed_context.business_rules) :
               Strip(GetOr(parsed_context.business_rules[i], "condition",
                           <<>>)) = <<>>)
              => "EMPTY_RULE_CONDITION" \in Codes(validation.errors)

\* the part of C12 that the code keeps: whenever validate does return, the
\* three defects are reported
C12_DefectsReportedWhenReturned ==
    (Called("validate") /\ ~IsRaised(result))
    => /\ Get(parsed_context.datasets[1], "dataset_id") = ""
              => "MISSING_DATASET_ID" \in Codes(validation.errors)
       /\ (\E i \in 1..Len(parsed_context.relationships) :
               Get(parsed_context.relationships[i], "left_dataset")
                   \notin {"A", "B"})
              => "UNKNOWN_DATASET_IN_RELATIONSHIP" \in Codes(validation.errors)
       /\ (\E i \in 1..Len(parsed_context.business_rules) :
               Strip(GetOr(parsed_context.business_rules[i], "condition",
                           <<>>)) = <<>>)
              => "EMPTY_RULE_CONDITION" \in Codes(validation.errors)

\* validate raised TypeError on a multi-dataset document whose only
\* relationship is in the markdown shape
C12_RaisedOnMarkdownRelationship ==
    /\ Called("validate")
    /\ result = Raised("TypeError")
    /\ parsed_context.relationships = <<MarkdownRelationship("a", "b", "ref_id")>>
    /\ parsed_context.business_rules = <<>>

\* validate raised AttributeError on a rule whose condition is None
C12_RaisedOnNoneCondition ==
    /\ Called("validate")
    /\ result = Raised("AttributeError")
    /\ parsed_context.relationships = <<>>

(***************************************************************************)
(* Specification SpecFrame: one resolver, one generator and one validator  *)
(* over the same document, called again and again in any order.            *)
(***************************************************************************)
RecentFilter ==
    [id |-> "recent", condition |-> <<"d", ">", "{", "p", "}">>,
     parameters |-> <<[name |-> "p", data_type |-> "string"]>>]

FrameContext ==
    [datasets |-> [i \in 1..NumDatasets |-> DatasetEntry(i, TRUE)],
     metrics |-> <<[id |-> "total", expression |-> "SUM(a.id)"]>>,
     filters |-> <<RecentFilter>>]

FilterParams == {NoneDict, [p |-> <<"7">>]}

InitFrame ==
    \E rels \in UniqueIdLists(MaxFrameRels) :
        /\ relationships = rels
        /\ graph = build_graph(rels)
        /\ generator = SQLGenerator(FrameContext)
        /\ parsed_context \in Documents({rels})
        /\ validator = [db |-> OwnedDatasets, user_id |-> "u1"]
        /\ validation = NewValidationResult
        /\ calls = [add_error |-> 0, add_warning |-> 0]
        /\ op = "init"
        /\ args = <<>>
        /\ result = PyNone

CallFindJoinPath ==
    \E from_dataset \in Datasets, to_dataset \in Datasets :
        /\ op' = "find_join_path"
        /\ args' = [from_dataset |-> from_dataset, to_dataset |-> to_dataset,
                    max_depth |-> DefaultMaxDepth]
        /\ result' = find_join_path(graph, from_dataset, to_dataset,
                                    DefaultMaxDepth)
        /\ UNCHANGED <<relationships, graph, generator, parsed_context,
                       validator, validation, calls>>

CallFindJoinPathMulti ==
    \E dataset_ids \in SeqsUpTo(Datasets, MaxFrameRels) :
        /\ op' = "find_join_path_multi"
        /\ args' = [dataset_ids |-> dataset_ids,
                    max_depth |-> DefaultMaxDepthMulti]
        /\ result' \in find_join_path_multi(graph, dataset_ids,
                                            DefaultMaxDepthMulti)
        /\ UNCHANGED <<relationships, graph, generator, parsed_context,
                       validator, validation, calls>>

CallSuggestJoins ==
    \E required_datasets \in SeqsUpTo(Datasets, MaxFrameRels) :
        /\ op' = "suggest_joins"
        /\ args' = [required_datasets |-> required_datasets]
        /\ result' \in suggest_joins(graph, required_datasets, 3)
        /\ UNCHANGED <<relationships, graph, generator, parsed_context,
                       validator, validation, calls>>

CallGenerateMultiDatasetQuery ==
    \E from_dataset \in Datasets, to_dataset \in Datasets :
        LET path == find_join_path(graph, from_dataset, to_dataset,
                                   DefaultMaxDepth)
            q == [select_columns |-> <<"a.id", "total">>,
                  join_path |-> path.path, where_clauses |-> <<>>,
                  group_by |-> <<"a.id">>, order_by |-> <<>>, limit |-> 0]
        IN  /\ path.found
            /\ op' = "generate_multi_dataset_query"
            /\ args' = q
            /\ result' = generate_multi_dataset_query(generator, q)
            /\ relationships' = RelationshipsAfterQuery(relationships,
                                                        path.path, 1)
            /\ graph' = build_graph(relationships')
            /\ UNCHANGED <<generator, parsed_context, validator, validation,
                           calls>>

CallApplyFilter ==
    \E filter_id \in {"recent", "missing"}, params \in FilterParams :
        /\ op' = "apply_filter"
        /\ args' = [filter_id |-> filter_id, params |-> params]
        /\ result' = apply_filter(generator, filter_id, params)
        /\ UNCHANGED <<relationships, graph, generator, parsed_context,
                       validator, validation, calls>>

CallValidate ==
    /\ \E outcome \in validate(validator, parsed_context) :
        /\ result' = outcome
        /\ validation' = IF IsRaised(outcome) THEN validation ELSE outcome
        /\ calls' = IF IsRaised(outcome) THEN calls
                    ELSE [add_error |-> Len(outcome.errors),
                          add_warning |-> Len(outcome.warnings)]
    /\ op' = "validate"
    /\ args' = <<>>
    /\ UNCHANGED <<relationships, graph, generator, parsed_context, validator>>

NextFrame ==
    \/ CallFindJoinPath
    \/ CallFindJoinPathMulti
    \/ CallSuggestJoins
    \/ CallGenerateMultiDatasetQuery
    \/ CallApplyFilter
    \/ CallValidate

SpecFrame == InitFrame /\ [][NextFrame]_vars

\* the operations whose result may depend on the order in which Python
\* iterates a set (the same order every time within one process)
IteratesSets == {"find_join_path_multi", "suggest_joins", "validate"}

Line(kind, a, b, c, d) == [kind |-> kind, a |-> a, b |-> b, c |-> c, d |-> d]

Fence == Line("---", "", "", "", "")
Blank == Line("", "", "", "", "")
Heading(title) == Line("#", title, "", "", "")
Paragraph(text) == Line("text", text, "", "", "")
DatasetsHeading == Line("## Datasets", "", "", "", "")
RelationshipsHeading == Line("## Relationships", "", "", "", "")
DatasetHeading(name, id) == Line("## Dataset:", name, id, "", "")
DatasetItem(name, id) == Line("- (id:)", name, id, "", "")
RelationshipItem(from, arrow, to, column) == Line("- via", from, to, column, arrow)
YamlKey(key, text, quote) == Line("key:", key, text, quote, "")
YamlListKey(key) == Line("key:-", key, "", "", "")
YamlItemField(first, field, text, quote) ==
    Line(IF first THEN "- field:" ELSE "  field:", field, text, quote, "")

\* the characters of a line
LineText(line) ==
    CASE line.kind = "#" -> "# " \o line.a
      [] line.kind = "text" -> line.a
      [] line.kind = "## Dataset:" ->
             "## Dataset: " \o line.a \o " (id: " \o line.b \o ")"
      [] line.kind = "- (id:)" -> "- " \o line.a \o " (id: " \o line.b \o ")"
      [] line.kind = "- via" ->
             "- " \o line.a \o " " \o line.d \o " " \o line.b \o " via " \o line.c
      [] line.kind \in {"key:", "- field:", "  field:"} ->
             (CASE line.kind = "key:" -> "" [] line.kind = "- field:" -> "- "
                [] OTHER -> "  ")
             \o line.a \o ": " \o line.c \o line.b \o line.c
      [] line.kind = "key:-" -> line.a \o ":"
      [] OTHER -> line.kind

ListKinds == {"- (id:)", "- via"}
HeadingKinds == {"#", "## Datasets", "## Relationships", "## Dataset:"}

YStr(v) == [t |-> "str", v |-> v]
YNull == [t |-> "null", v |-> "null"]
YAbsent == [t |-> "absent", v |-> ""]
YList(items) == [t |-> "list", items |-> items]
NullList == [t |-> "null", items |-> <<>>]
AbsentList == [t |-> "absent", items |-> <<>>]

\* the texts YAML reads as null and as numbers when they are not quoted
NullTexts == {"null", "~", ""}
NumberTexts == {"1.0", "2"}

\* yaml.safe_load of one scalar
ResolveScalar(text, quote) ==
    IF quote # "" THEN YStr(text)
    ELSE IF text \in NullTexts THEN YNull
    ELSE IF text \in NumberTexts THEN [t |-> "number", v |-> text]
    ELSE YStr(text)

\* yaml.dump of one scalar: a string that would be read back as something
\* else is quoted
DumpScalar(node) ==
    IF node.t = "null" THEN [text |-> "null", quote |-> ""]
    ELSE IF node.t = "str" /\ ResolveScalar(node.v, "").t # "str"
    THEN [text |-> node.v, quote |-> "'"]
    ELSE [text |-> node.v, quote |-> ""]

ScalarKeys == <<"name", "version", "description", "context_type", "status">>
ListKeys == <<"datasets", "relationships">>
FieldOrder ==
    <<"id", "name", "dataset_id", "type", "from_dataset", "from_column",
      "to_dataset", "to_column", "description">>

EmptyDocument ==
    [name |-> YAbsent, version |-> YAbsent, description |-> YAbsent,
     context_type |-> YAbsent, status |-> YAbsent,
     datasets |-> AbsentList, relationships |-> AbsentList]

In(parsed_yaml, key) == parsed_yaml[key].t # "absent"

\* yaml.safe_load of the frontmatter, line by line; key is the list the
\* items being read belong to
RECURSIVE LoadLines(_, _, _, _)
LoadLines(lines, i, parsed_yaml, key) ==
    IF i > Len(lines) THEN parsed_yaml
    ELSE LET line == lines[i]
             node == ResolveScalar(line.b, line.c)
             items == parsed_yaml[key].items
         IN  CASE line.kind = "key:" ->
                      LoadLines(lines, i + 1,
                          [parsed_yaml EXCEPT ![line.a] =
                              IF line.a \in Range(ListKeys)
                              THEN IF node.t = "null" THEN NullList
                                   ELSE YList(<<>>)
                              ELSE node],
                          key)
               [] line.kind = "key:-" ->
                      LoadLines(lines, i + 1,
                          [parsed_yaml EXCEPT ![line.a] = YList(<<>>)], line.a)
               [] line.kind = "- field:" ->
                      LoadLines(lines, i + 1,
                          [parsed_yaml EXCEPT ![key] =
                              YList(Append(items, line.a :> node))],
                          key)
               [] line.kind = "  field:" ->
                      LoadLines(lines, i + 1,
                          [parsed_yaml EXCEPT ![key] =
                              YList([items EXCEPT ![Len(items)] =
                                        (line.a :> node) @@ @])],
                          key)
               [] OTHER -> LoadLines(lines, i + 1, parsed_yaml, key)

\* yaml.safe_load: no line gives None, which is not a dict
safe_load(lines) ==
    IF \A i \in 1..Len(lines) : lines[i] = Blank
    THEN Raised("ContextParseError")
    ELSE LoadLines(lines, 1, EmptyDocument, "datasets")

\* yaml.dump of one item of a list, its fields in the order of the dict
RECURSIVE DumpItem(_, _, _)
DumpItem(item, i, first) ==
    IF i > Len(FieldOrder) THEN <<>>
    ELSE IF FieldOrder[i] \in DOMAIN item
    THEN LET scalar == DumpScalar(item[FieldOrder[i]])
         IN  <<YamlItemField(first, FieldOrder[i], scalar.text, scalar.quote)>>
             \o DumpItem(item, i + 1, FALSE)
    ELSE DumpItem(item, i + 1, first)

RECURSIVE DumpItems(_, _)
DumpItems(items, i) ==
    IF i > Len(items) THEN <<>>
    ELSE DumpItem(items[i], 1, TRUE) \o DumpItems(items, i + 1)

\* yaml.dump(parsed_yaml, default_flow_style=False, sort_keys=False)
RECURSIVE DumpKeys(_, _, _)
DumpKeys(parsed_yaml, keys, i) ==
    IF i > Len(keys) THEN <<>>
    ELSE LET key == keys[i]
             node == parsed_yaml[key]
         IN  (CASE node.t = "absent" -> <<>>
                [] node.t = "list" /\ node.items = <<>> ->
                       <<YamlKey(key, "[]", "")>>
                [] node.t = "list" ->
                       <<YamlListKey(key)>> \o DumpItems(node.items, 1)
                [] node.t = "null" -> <<YamlKey(key, "null", "")>>
                [] OTHER -> LET scalar == DumpScalar(node)
                            IN  <<YamlKey(key, scalar.text, scalar.quote)>>)
             \o DumpKeys(parsed_yaml, keys, i + 1)

dump(parsed_yaml) == DumpKeys(parsed_yaml, ScalarKeys \o ListKeys, 1)

\* str.strip of a text whose lines carry no white space of their own
RECURSIVE StripLines(_)
StripLines(text) ==
    IF Len(text) = 1 THEN text
    ELSE IF Head(text) = Blank THEN StripLines(Tail(text))
    ELSE IF text[Len(text)] = Blank
    THEN StripLines(SubSeq(text, 1, Len(text) - 1))
    ELSE text

\* str.lower, str.title and str.replace(" ", "_") on the names of the texts
Lower(name) ==
    CASE name = "Orders" -> "orders"
      [] name = "Customers" -> "customers"
      [] name = "Order Items" -> "order items"
      [] OTHER -> name

TitleCase(name) ==
    CASE name = "orders" -> "Orders"
      [] name = "customers" -> "Customers"
      [] OTHER -> name

Underscored(name) == IF name = "order items" THEN "order_items" ELSE name

\* [a-f0-9-]+, with and without re.IGNORECASE
HexIds == {"abc", "def"}
UpperHexIds == {"ABC"}
\* \w+
IsWord(name) == name \notin {"Order Items", "order items", ""}

\* the first "# title" line, or the default name
RECURSIVE TitleOf(_, _)
TitleOf(content, i) ==
    IF i > Len(content) THEN "Dataset Context"
    ELSE IF content[i].kind = "#" THEN content[i].a
    ELSE TitleOf(content, i + 1)

\* the lines i.. of a paragraph joined again
RECURSIVE ParagraphText(_, _)
ParagraphText(content, i) ==
    IF i = Len(content) \/ content[i + 1] = Blank THEN LineText(content[i])
    ELSE LineText(content[i]) \o "\n" \o ParagraphText(content, i + 1)

\* the first paragraph that does not start with "#", or the default
\* description (the texts here stay under the 200 characters kept)
RECURSIVE FirstParagraph(_, _)
FirstParagraph(content, i) ==
    IF i > Len(content) THEN "Dataset context documentation"
    ELSE IF /\ content[i] # Blank
            /\ (i = 1 \/ content[i - 1] = Blank)
            /\ content[i].kind \notin HeadingKinds
    THEN ParagraphText(content, i)
    ELSE FirstParagraph(content, i + 1)

\* the list under a section heading: the first heading of that kind that
\* list lines follow (blank lines may come between), and its list lines
RECURSIVE SkipBlank(_, _)
SkipBlank(content, i) ==
    IF i <= Len(content) /\ content[i] = Blank THEN SkipBlank(content, i + 1)
    ELSE i

RECURSIVE ListFrom(_, _)
ListFrom(content, i) ==
    IF i <= Len(content) /\ content[i].kind \in ListKinds
    THEN <<content[i]>> \o ListFrom(content, i + 1)
    ELSE <<>>

RECURSIVE SectionList(_, _, _)
SectionList(content, heading, i) ==
    IF i > Len(content) THEN <<>>
    ELSE IF /\ content[i] = heading
            /\ ListFrom(content, SkipBlank(content, i + 1)) # <<>>
    THEN ListFrom(content, SkipBlank(content, i + 1))
    ELSE SectionList(content, heading, i + 1)

MarkdownDataset(name, dataset_uuid) ==
    [id |-> YStr(Underscored(Lower(name))), name |-> YStr(name),
     dataset_id |-> YStr(dataset_uuid)]

\* pattern 1 of _extract_datasets_from_markdown (re.IGNORECASE)
RECURSIVE DatasetHeadings(_, _)
DatasetHeadings(content, i) ==
    IF i > Len(content) THEN <<>>
    ELSE IF /\ content[i].kind = "## Dataset:"
            /\ content[i].b \in HexIds \cup UpperHexIds
    THEN <<MarkdownDataset(content[i].a, content[i].b)>>
         \o DatasetHeadings(content, i + 1)
    ELSE DatasetHeadings(content, i + 1)

\* pattern 2 of _extract_datasets_from_markdown: the items of the list
RECURSIVE DatasetItems(_, _)
DatasetItems(list_content, i) ==
    IF i > Len(list_content) THEN <<>>
    ELSE IF /\ list_content[i].kind = "- (id:)"
            /\ list_content[i].b \in HexIds
    THEN <<MarkdownDataset(list_content[i].a, list_content[i].b)>>
         \o DatasetItems(list_content, i + 1)
    ELSE DatasetItems(list_content, i + 1)

\* ContextParser._extract_datasets_from_markdown: the list, as a list node
extract_datasets_from_markdown(content, dataset_id) ==
    LET datasets ==
            DatasetHeadings(content, 1)
            \o DatasetItems(SectionList(content, DatasetsHeading, 1), 1)
    IN  IF datasets # <<>> THEN YList(datasets)
        ELSE IF StrTruthy(dataset_id)
        THEN YList(<<[id |-> YStr("main"), name |-> YStr(TitleOf(content, 1)),
                      dataset_id |-> YStr(dataset_id)]>>)
        ELSE Raised("ContextParseError")

\* the relationships of the list under "## Relationships"
RECURSIVE MarkdownRelationships(_, _)
MarkdownRelationships(list_content, i) ==
    IF i > Len(list_content) THEN <<>>
    ELSE LET line == list_content[i]
             from_dataset == Lower(line.a)
             to_dataset == Lower(line.b)
         IN  IF line.kind = "- via" /\ IsWord(line.a) /\ IsWord(line.b)
             THEN <<[id |-> YStr(from_dataset \o "_" \o to_dataset),
                     name |-> YStr(TitleCase(from_dataset) \o " to "
                                   \o TitleCase(to_dataset)),
                     type |-> YStr("many_to_one"),
                     from_dataset |-> YStr(from_dataset),
                     from_column |-> YStr(line.c),
                     to_dataset |-> YStr(to_dataset),
                     to_column |-> YStr(line.c),
                     description |-> YStr("Relationship from " \o from_dataset
                                          \o " to " \o to_dataset \o " via "
                                          \o line.c)]>>
                  \o MarkdownRelationships(list_content, i + 1)
             ELSE MarkdownRelationships(list_content, i + 1)

\* ContextParser._extract_relationships_from_markdown; <<>> is None
extract_relationships_from_markdown(content) ==
    MarkdownRelationships(SectionList(content, RelationshipsHeading, 1), 1)

\* the closing "---" of the frontmatter: the first one after the second
\* line that a newline follows; 0 when the text has no frontmatter
ClosingFence(content) ==
    LET fences == {j \in 3..(Len(content) - 1) : content[j] = Fence}
    IN  IF Head(content) = Fence /\ fences # {}
        THEN CHOOSE j \in fences : \A k \in fences : j <= k
        ELSE 0

\* ContextParser.parse
parse(content, dataset_id) ==
    LET j == ClosingFence(content)
        datasets_list == extract_datasets_from_markdown(content, dataset_id)
        found == extract_relationships_from_markdown(content)
    IN  IF j > 0
        THEN LET parsed_yaml == safe_load(SubSeq(content, 2, j - 1))
             IN  IF IsRaised(parsed_yaml) THEN parsed_yaml
                 ELSE [parsed_yaml |-> parsed_yaml,
                       markdown_content |->
                           StripLines(SubSeq(content, j + 1, Len(content)))]
        ELSE IF IsRaised(datasets_list) THEN datasets_list
        ELSE [parsed_yaml |->
                  [EmptyDocument EXCEPT
                      !.name = YStr(TitleOf(content, 1)),
                      !.version = YStr("1.0.0"),
                      !.description = YStr(FirstParagraph(content, 1)),
                      !.context_type =
                          YStr(IF Len(datasets_list.items) > 1 THEN "multi_dataset"
                               ELSE "single_dataset"),
                      !.status = YStr("active"),
                      !.datasets = datasets_list,
                      !.relationships =
                          IF found # <<>> THEN YList(found)
                          ELSE AbsentList],
              markdown_content |-> content]

Missing(node) == node.t \in {"absent", "null"}

\* ContextParser.validate_required_fields: the exception it raises, or None
validate_required_fields(parsed_yaml) ==
    IF \/ \E field \in {"name", "version", "description", "datasets"} :
              Missing(parsed_yaml[field])
       \/ parsed_yaml.datasets.items = <<>>
       \/ \E i \in 1..Len(parsed_yaml.datasets.items) :
              \E field \in {"id", "name", "dataset_id"} :
                  \/ field \notin DOMAIN parsed_yaml.datasets.items[i]
                  \/ Missing(parsed_yaml.datasets.items[i][field])
    THEN Raised("ContextParseError")
    ELSE NoneDict

\* the strings that re.match(r'^\d+\.\d+\.\d+$', version) accepts: "$" also
\* matches before a newline that ends the string
SemanticVersions == {"1.0.0", "2.1.3", "1.0.0\n"}

\* ContextParser.validate_version_format: re.match takes a string only
validate_version_format(version) ==
    IF version.t # "str" THEN Raised("TypeError")
    ELSE [returned |-> version.v \in SemanticVersions]

\* determine_context_type that infers the type whatever the document declares
determine_context_type_inferred_only(parsed_yaml) ==
    IF Len(parsed_yaml.datasets.items) = 1
    THEN IF parsed_yaml.relationships.t = "null" THEN Raised("TypeError")
         ELSE IF Len(parsed_yaml.relationships.items) = 0
         THEN YStr("single_dataset")
         ELSE YStr("multi_dataset")
    ELSE YStr("multi_dataset")

\* ContextParser.determine_context_type
determine_context_type(parsed_yaml) ==
    IF In(parsed_yaml, "context_type") THEN parsed_yaml.context_type
    ELSE IF Len(parsed_yaml.datasets.items) = 1
    THEN IF parsed_yaml.relationships.t = "null" THEN Raised("TypeError")
         ELSE IF Len(parsed_yaml.relationships.items) = 0
         THEN YStr("single_dataset")
         ELSE YStr("multi_dataset")
    ELSE YStr("multi_dataset")

\* ContextParser.parse_and_validate
parse_and_validate(content, dataset_id) ==
    LET parsed == parse(content, dataset_id)
        parsed_yaml == parsed.parsed_yaml
        version == IF In(parsed_yaml, "version") THEN parsed_yaml.version
                   ELSE YStr("")
        context_type == determine_context_type(parsed_yaml)
    IN  IF IsRaised(parsed) THEN parsed
        ELSE IF IsRaised(validate_required_fields(parsed_yaml))
        THEN validate_required_fields(parsed_yaml)
        ELSE IF IsRaised(validate_version_format(version))
        THEN validate_version_format(version)
        ELSE IF ~validate_version_format(version).returned
        THEN Raised("ContextParseError")
        ELSE IF IsRaised(context_type) THEN context_type
        ELSE [parsed_yaml |-> parsed_yaml,
              markdown_content |-> parsed.markdown_content,
              name |-> parsed_yaml.name,
              version |-> parsed_yaml.version,
              description |-> parsed_yaml.description,
              context_type |-> context_type,
              status |-> IF In(parsed_yaml, "status") THEN parsed_yaml.status
                         ELSE YStr("active"),
              datasets |-> parsed_yaml.datasets,
              relationships |-> parsed_yaml.relationships]

\* ContextSerializer.serialize: f"---\n{yaml_str}---\n\n{markdown_content}"
serialize(parsed_yaml, markdown_content) ==
    <<Fence>> \o dump(parsed_yaml) \o <<Fence, Blank>> \o markdown_content

(***************************************************************************)
(* Specification SpecParse: one text, headerless or with a frontmatter, is *)
(* parsed, parsed and validated, and serialized and parsed again.          *)
(***************************************************************************)
\* most datasets and most relationships a text declares
MaxTextItems == 2

TextNames == {"Orders", "Customers", "Order Items"}

OpeningLines ==
    {<<>>, <<Heading("Orders"), Blank, Paragraph("Some text.")>>,
     <<Blank, Heading("Orders"), Blank>>}

DatasetLists(form) ==
    {<<>>} \cup
    {[i \in 1..n |-> IF form = "list"
                     THEN DatasetItem(names[i], ids[i])
                     ELSE DatasetHeading(names[i], ids[i])] :
        n \in 1..MaxTextItems,
        names \in {<<"Orders", "Customers", "Order Items", "Orders">>,
                   <<"Order Items", "Orders", "Customers", "Orders">>},
        ids \in {<<"abc", "def", "abc", "def">>,
                 <<"ABC", "def", "abc", "def">>}}

DatasetSections ==
    {IF items = <<>> THEN <<>> ELSE <<DatasetsHeading>> \o items :
        items \in DatasetLists("list")}
    \cup DatasetLists("headings")

RelationshipSections ==
    {<<>>} \cup
    {<<RelationshipsHeading>>
     \o [i \in 1..n |-> RelationshipItem(pairs[i][1], arrow, pairs[i][2],
                                         "customer_id")] :
        n \in 1..MaxTextItems,
        pairs \in {<<<<"Orders", "Customers">>, <<"Customers", "Orders">>,
                     <<"Orders", "Customers">>, <<"Customers", "Orders">>>>},
        arrow \in {"->", "→"}}

ClosingLines == {<<>>, <<Blank>>}

\* the spec's headerless example
ExampleText ==
    <<Heading("Orders"), Blank, Paragraph("Some text."), DatasetsHeading,
      DatasetItem("Orders", "abc"), DatasetItem("Customers", "def"),
      RelationshipsHeading,
      RelationshipItem("Orders", "->", "Customers", "customer_id")>>

HeaderlessTexts(opening) ==
    {opening \o datasets \o found \o closing :
        datasets \in DatasetSections, found \in RelationshipSections,
        closing \in ClosingLines} \ {<<>>}

VersionNodes ==
    {YStr("1.0.0"), YStr("1.0.0\n"), YStr("v1"), YStr("1.0"),
     [t |-> "number", v |-> "1.0"], YNull, YAbsent}

DatasetNodes ==
    {AbsentList, NullList, YList(<<>>),
     YList(<<MarkdownDataset("Orders", "abc")>>),
     YList(<<MarkdownDataset("Orders", "abc"),
             MarkdownDataset("Customers", "def")>>),
     YList(<<[id |-> YStr("orders"), name |-> YStr("Orders")]>>)}

RelationshipNodes ==
    {AbsentList, NullList, YList(<<>>), YList(<<[id |-> YStr("r1")]>>)}

StructuredDocuments(names) ==
    [name : names, version : VersionNodes,
     description : {YStr("Sales analytics"), YAbsent},
     context_type : {YAbsent, YStr("single_dataset"), YStr("multi_dataset")},
     status : {YAbsent}, datasets : DatasetNodes,
     relationships : RelationshipNodes]

Bodies == {<<Blank>>, <<Paragraph("Some text."), Blank>>}

InitParse ==
    /\ relationships = <<>>
    /\ graph = EmptyGraph
    /\ generator = SQLGenerator(EmptyContext)
    /\ parsed_context = NoneDict
    /\ validator = [db |-> OwnedDatasets, user_id |-> "u1"]
    /\ validation = NoValidation
    /\ calls = [add_error |-> 0, add_warning |-> 0]
    /\ op = "init"
    /\ result = PyNone
    /\ \E dataset_id \in {PyNone, "0a"} :
        \/ \E opening \in OpeningLines :
            \E content \in HeaderlessTexts(opening) :
                args = [content |-> content, dataset_id |-> dataset_id]
        \/ \E document \in StructuredDocuments({YStr("sales"), YNull}),
              markdown_content \in Bodies :
                args = [content |-> <<Fence>> \o dump(document) \o <<Fence>>
                                    \o markdown_content,
                        dataset_id |-> dataset_id]

ParseAndValidate ==
    /\ op = "init"
    /\ op' = "parse_and_validate"
    /\ result' = parse_and_validate(args.content, args.dataset_id)
    /\ UNCHANGED <<relationships, graph, generator, parsed_context, validator,
                   validation, calls, args>>

Parse ==
    /\ op = "init"
    /\ op' = "parse"
    /\ result' = parse(args.content, args.dataset_id)
    /\ parsed_context' = result'
    /\ UNCHANGED <<relationships, graph, generator, validator, validation,
                   calls, args>>

DetermineContextType ==
    /\ op = "parse"
    /\ ~IsRaised(result)
    /\ op' = "determine_context_type"
    /\ result' = determine_context_type(parsed_context.parsed_yaml)
    /\ UNCHANGED <<relationships, graph, generator, parsed_context, validator,
                   validation, calls, args>>

Serialize ==
    /\ op = "parse"
    /\ ~IsRaised(result)
    /\ op' = "serialize"
    /\ result' = serialize(result.parsed_yaml, result.markdown_content)
    /\ UNCHANGED <<relationships, graph, generator, parsed_context, validator,
                   validation, calls, args>>

ParseAgain ==
    /\ op = "serialize"
    /\ op' = "parse_again"
    /\ result' = parse(result, args.dataset_id)
    /\ UNCHANGED <<relationships, graph, generator, parsed_context, validator,
                   validation, calls, args>>

NextParse ==
    \/ ParseAndValidate
    \/ Parse
    \/ DetermineContextType
    \/ Serialize
    \/ ParseAgain

SpecParse == InitParse /\ [][NextParse]_vars

\* the text has no frontmatter
Headerless == ClosingFence(args.content) = 0

IsDatasetItem(line) == line.kind = "- (id:)"
IsRelationshipItem(line) == line.kind = "- via"
\* the entries of the Datasets list and of the Relationships list of the text
DeclaredItems == SelectSeq(args.content, IsDatasetItem)
DeclaredLinks == SelectSeq(args.content, IsRelationshipItem)

\* the text declares no dataset, neither by a heading nor in a list
DeclaresNoDataset ==
    \A i \in 1..Len(args.content) :
        args.content[i].kind \notin {"- (id:)", "## Dataset:"}

(***************************************************************************)
(* C14.  Headerless text with a Datasets list of k entries "Name (id: x)"  *)
(* and a Relationships list of m entries "A -> B via c" parses to k        *)
(* datasets whose local ids are the lower-cased names, to the context type *)
(* multi_dataset when k > 1, and to m relationships, each with the keys    *)
(* the validator, the resolver and the SQL generator read: left_dataset =  *)
(* lower(A), right_dataset = lower(B), join_type inner and conditions.     *)
(***************************************************************************)
C14_HeaderlessListsGiveConsumedShape ==
    (op = "parse" /\ Headerless /\ Len(DeclaredItems) >= 1) =>
        /\ ~IsRaised(result)
        /\ LET parsed_yaml == result.parsed_yaml
               datasets == parsed_yaml.datasets.items
               links == parsed_yaml.relationships.items
           IN  /\ Len(datasets) = Len(DeclaredItems)
               /\ \A i \in 1..Len(datasets) :
                      datasets[i].id.v = Lower(DeclaredItems[i].a)
               /\ Len(datasets) > 1
                      => parsed_yaml.context_type = YStr("multi_dataset")
               /\ Len(links) = Len(DeclaredLinks)
               /\ \A i \in 1..Len(links) :
                      /\ {"left_dataset", "right_dataset", "join_type",
                          "conditions"} \subseteq DOMAIN links[i]
                      /\ links[i].left_dataset.v = Lower(DeclaredLinks[i].a)
                      /\ links[i].right_dataset.v = Lower(DeclaredLinks[i].b)
                      /\ links[i].join_type.v = "inner"

\* C14, what the parser does give: one dataset per entry whose id is lower
\* case hexadecimal, and one relationship per entry with the keys
\* from_dataset, from_column, to_dataset, to_column and type
C14_HeaderlessListsAsParsed ==
    (op = "parse" /\ Headerless /\ Len(DeclaredItems) >= 1
     /\ \A i \in 1..Len(DeclaredItems) : DeclaredItems[i].b \in HexIds) =>
        /\ ~IsRaised(result)
        /\ LET parsed_yaml == result.parsed_yaml
               datasets == parsed_yaml.datasets.items
               links == parsed_yaml.relationships.items
           IN  /\ Len(datasets) = Len(DeclaredItems)
               /\ \A i \in 1..Len(datasets) :
                      datasets[i].id.v = Underscored(Lower(DeclaredItems[i].a))
               /\ Len(datasets) > 1
                      <=> parsed_yaml.context_type = YStr("multi_dataset")
               /\ Len(links) = Len(DeclaredLinks)
               /\ \A i \in 1..Len(links) :
                      /\ DOMAIN links[i] \cap {"left_dataset", "right_dataset",
                                               "join_type", "conditions"} = {}
                      /\ links[i].from_dataset.v = Lower(DeclaredLinks[i].a)
                      /\ links[i].to_dataset.v = Lower(DeclaredLinks[i].b)
                      /\ links[i].from_column.v = DeclaredLinks[i].c
                      /\ links[i].to_column.v = DeclaredLinks[i].c

\* C14: the spec's example was parsed
C14_ExampleParsed ==
    /\ op = "parse"
    /\ args.content = ExampleText
    /\ Len(result.parsed_yaml.datasets.items) = 2
    /\ Len(result.parsed_yaml.relationships.items) = 1
    /\ "left_dataset" \notin DOMAIN result.parsed_yaml.relationships.items[1]

\* the frontmatter as YAML reads it
Frontmatter == safe_load(SubSeq(args.content, 2, ClosingFence(args.content) - 1))

\* the strings of the form digits.digits.digits
DottedVersions == {"1.0.0", "2.1.3"}

\* the inputs the parser has to refuse
MustFail ==
    IF Headerless THEN DeclaresNoDataset /\ ~StrTruthy(args.dataset_id)
    ELSE \/ IsRaised(Frontmatter)
         \/ \E field \in {"name", "version", "description", "datasets"} :
                Missing(Frontmatter[field])
         \/ Frontmatter.datasets.items = <<>>
         \/ Frontmatter.version.t # "str"
         \/ Frontmatter.version.v \notin DottedVersions

\* a document with every required field
Complete(document) ==
    /\ \A field \in {"name", "version", "description", "context_type"} :
           ~Missing(document[field])
    /\ document.datasets.t = "list" /\ document.datasets.items # <<>>
    /\ document.parsed_yaml.datasets = document.datasets

(***************************************************************************)
(* C15.  parse_and_validate returns a complete document or raises          *)
(* ContextParseError and returns nothing.  It raises whenever name,        *)
(* version, description or datasets is absent or null, datasets is empty,  *)
(* the version is not digits.digits.digits, or headerless text declares no *)
(* dataset and no default dataset id comes with it; headerless text that   *)
(* declares no dataset and comes with a default dataset id gives a         *)
(* single_dataset document with one dataset bound to that id.              *)
(***************************************************************************)
C15_ParseAndValidateAllOrParseError ==
    op = "parse_and_validate" =>
        /\ IsRaised(result) => result = Raised("ContextParseError")
        /\ ~IsRaised(result) => Complete(result)
        /\ MustFail => IsRaised(result)
        /\ (Headerless /\ DeclaresNoDataset /\ StrTruthy(args.dataset_id)) =>
               /\ ~IsRaised(result)
               /\ result.context_type = YStr("single_dataset")
               /\ Len(result.datasets.items) = 1
               /\ result.datasets.items[1].dataset_id = YStr(args.dataset_id)

\* C15, what holds: nothing partial is returned, every input to refuse whose
\* version is a string without a final newline is refused, and the default
\* dataset id is used
C15_NoPartialDocument ==
    op = "parse_and_validate" =>
        /\ ~IsRaised(result) => Complete(result)
        /\ (MustFail /\ ~(~Headerless /\ ~IsRaised(Frontmatter)
                          /\ Frontmatter.version.v = "1.0.0\n"))
               => IsRaised(result)
        /\ (Headerless /\ DeclaresNoDataset /\ StrTruthy(args.dataset_id)) =>
               /\ ~IsRaised(result)
               /\ result.context_type = YStr("single_dataset")
               /\ Len(result.datasets.items) = 1
               /\ result.datasets.items[1].dataset_id = YStr(args.dataset_id)

\* C15: a version that YAML reads as a number ends in a TypeError
C15_TypeErrorOnNumberVersion ==
    /\ op = "parse_and_validate"
    /\ ~Headerless
    /\ ~IsRaised(Frontmatter)
    /\ Frontmatter.version.t = "number"
    /\ result = Raised("TypeError")

C17_SerializeThenParseGivesSameDocument ==
    op = "parse_again" =>
        /\ ~IsRaised(result)
        /\ result.parsed_yaml = parsed_context.parsed_yaml
        /\ result.markdown_content = parsed_context.markdown_content

\* C17, what holds: the fields come back, and the body comes back stripped
C17_FieldsAndStrippedBodyComeBack ==
    op = "parse_again" =>
        /\ ~IsRaised(result)
        /\ result.parsed_yaml = parsed_context.parsed_yaml
        /\ result.markdown_content =
               StripLines(parsed_context.markdown_content)

\* C17: the body of a headerless text that ends with a newline lost it
C17_BodyLostItsLastNewline ==
    /\ op = "parse_again"
    /\ Headerless
    /\ parsed_context.markdown_content[Len(parsed_context.markdown_content)]
           = Blank
    /\ result.markdown_content # parsed_context.markdown_content

(***************************************************************************)
(* Specification SpecGenerate: one SQL generator over a context with       *)
(* aliases, metrics and filters; each of its operations is called with     *)
(* every combination of small arguments.                                   *)
(***************************************************************************)
\* most select columns of a query
MaxSelect == 2

OrderCustomer ==
    [id |-> "order_customer", left_dataset |-> "orders",
     right_dataset |-> "customers", join_type |-> "inner",
     conditions |-> <<[left_column |-> "customer_id", operator |-> "=",
                       right_column |-> "id"]>>]

ItemOrder ==
    [id |-> "item_order", left_dataset |-> "items",
     right_dataset |-> "orders", join_type |-> "left",
     conditions |-> <<[left_column |-> "order_id", operator |-> "=",
                       right_column |-> "id"]>>]

ShopDatasets ==
    <<[id |-> "orders", name |-> "Orders", alias |-> "o"],
      [id |-> "customers", name |-> "Customers", alias |-> "c"],
      [id |-> "items", name |-> "Items"]>>

TotalMetric == [id |-> "total", name |-> "Total", expression |-> "SUM(o.amount)"]
CountMetric == [id |-> "cnt", name |-> "Count", expression |-> "COUNT(*)"]

\* a filter without placeholders, and one with the declared parameters p (a
\* string) and q (an integer) and the placeholder {z} of no parameter
ActiveOnly == [id |-> "active_only", condition |-> <<"a", "=", "1">>]
Between ==
    [id |-> "between",
     condition |-> <<"{", "p", "}", "<", "{", "q", "}", "<", "{", "z", "}">>,
     parameters |-> <<[name |-> "p"],
                      [name |-> "q", data_type |-> "integer"]>>]

ShopContexts ==
    {[datasets |-> ShopDatasets, metrics |-> metrics,
      filters |-> <<ActiveOnly, Between>>] :
        metrics \in {<<>>, <<TotalMetric>>, <<TotalMetric, CountMetric>>}}

SelectTokens == {"c.name", "total", "cnt", "*"}
ShopNames == {"orders", "customers", "items"}
ParamValues == {<<"7">>, <<"{", "q", "}">>}
\* the params of apply_filter: None, or a dict over some of the names
ParamDicts ==
    {NoneDict} \cup
    UNION {[names -> ParamValues] : names \in SUBSET {"p", "q", "z"}}

InitGenerate ==
    \E context \in ShopContexts :
        /\ relationships = <<OrderCustomer, ItemOrder>>
        /\ graph = build_graph(relationships)
        /\ generator = SQLGenerator(context)
        /\ parsed_context = NoneDict
        /\ validator = [db |-> OwnedDatasets, user_id |-> "u1"]
        /\ validation = NoValidation
        /\ calls = [add_error |-> 0, add_warning |-> 0]
        /\ op = "init"
        /\ args = <<>>
        /\ result = PyNone

GenerateQuery ==
    \E from_dataset \in ShopNames, to_dataset \in ShopNames,
       select_columns \in SeqsUpTo(SelectTokens, MaxSelect),
       where_clauses \in {<<>>, <<"o.amount > 0">>},
       group_by \in {<<>>, <<"c.name">>},
       order_by \in {<<>>, <<"c.name">>},
       limit \in {0, 10} :
        LET found == find_join_path(graph, from_dataset, to_dataset,
                                    DefaultMaxDepth)
        IN  /\ op = "init"
            /\ found.found
            /\ op' = "generate_multi_dataset_query"
            /\ args' = [select_columns |-> select_columns,
                        join_path |-> found.path,
                        where_clauses |-> where_clauses,
                        group_by |-> group_by, order_by |-> order_by,
                        limit |-> limit]
            /\ result' = generate_multi_dataset_query(generator, args')
            /\ UNCHANGED <<relationships, graph, generator, parsed_context,
                           validator, validation, calls>>

GenerateSimpleQuery ==
    \E dataset_id \in ShopNames \cup {"returns"},
       select_columns \in SeqsUpTo(SelectTokens, MaxSelect),
       where_clauses \in {<<>>, <<"o.amount > 0">>},
       limit \in {0, 10} :
        /\ op = "init"
        /\ op' = "generate_simple_query"
        /\ args' = [dataset_id |-> dataset_id,
                    select_columns |-> select_columns,
                    where_clauses |-> where_clauses, limit |-> limit]
        /\ result' = generate_simple_query(generator, dataset_id,
                                           select_columns, where_clauses, limit)
        /\ UNCHANGED <<relationships, graph, generator, parsed_context,
                       validator, validation, calls>>

ExpandMetric ==
    \E metric_id \in SelectTokens :
        /\ op = "init"
        /\ op' = "expand_metric"
        /\ args' = [metric_id |-> metric_id]
        /\ result' = expand_metric(generator, metric_id)
        /\ UNCHANGED <<relationships, graph, generator, parsed_context,
                       validator, validation, calls>>

ApplyFilter ==
    \E filter_id \in {"active_only", "between", "missing"},
       params \in ParamDicts :
        /\ op = "init"
        /\ op' = "apply_filter"
        /\ args' = [filter_id |-> filter_id, params |-> params]
        /\ result' = apply_filter(generator, filter_id, params)
        /\ UNCHANGED <<relationships, graph, generator, parsed_context,
                       validator, validation, calls>>

NextGenerate ==
    \/ GenerateQuery
    \/ GenerateSimpleQuery
    \/ ExpandMetric
    \/ ApplyFilter

SpecGenerate == InitGenerate /\ [][NextGenerate]_vars

\* the metric ids the context declares, and the declared expression of one
MetricIds ==
    {generator.context.metrics[i].id :
        i \in 1..Len(generator.context.metrics)}

ExpressionOf(metric_id) ==
    (CHOOSE m \in Range(generator.context.metrics) : m.id = metric_id).expression

\* the text of one select token in the SELECT list
Emitted(token) ==
    IF token \in MetricIds THEN ExpressionOf(token) \o " AS " \o token
    ELSE token

(***************************************************************************)
(* C18.  In the SELECT list of generate_multi_dataset_query and of         *)
(* generate_simple_query every select token that is a declared metric id   *)
(* is emitted as "<expression> AS <id>", never as the bare id, every other *)
(* token is emitted unchanged, and the order of the tokens is kept;        *)
(* expand_metric of a declared id returns its expression.                  *)
(***************************************************************************)
C18_MetricTokensExpandedInOrder ==
    /\ (Called("generate_multi_dataset_query")
        \/ Called("generate_simple_query")) =>
           /\ Len(result) >= Len(args.select_columns)
           /\ \A i \in 1..Len(args.select_columns) :
                  result[i] = (IF i = 1 THEN "SELECT " ELSE "    ")
                              \o Emitted(args.select_columns[i])
                              \o (IF i < Len(args.select_columns) THEN ","
                                  ELSE "")
    /\ (Called("expand_metric") /\ args.metric_id \in MetricIds) =>
           result = ExpressionOf(args.metric_id)

\* the spec's example: select [c.name, total] with total = SUM(o.amount), one
\* inner join and GROUP BY c.name
C18_Witness ==
    /\ Called("generate_multi_dataset_query")
    /\ args.select_columns = <<"c.name", "total">>
    /\ args.join_path = <<ForwardEdge(OrderCustomer)>>
    /\ args.group_by = <<"c.name">>
    /\ args.where_clauses = <<>> /\ args.order_by = <<>> /\ args.limit = 0
    /\ result = <<"SELECT c.name,",
                  "    SUM(o.amount) AS total",
                  "FROM orders AS o",
                  "INNER JOIN customers AS c ON o.customer_id = c.id",
                  "GROUP BY c.name">>

\* the lines of a SELECT list
SelectLength == IF args.select_columns = <<>> THEN 1 ELSE Len(args.select_columns)

\* the dataset an edge leaves and the dataset it reaches
Origin(edge) ==
    IF edge.reverse THEN DeclaredById(edge.relationship.id).right_dataset
    ELSE DeclaredById(edge.relationship.id).left_dataset

Destination(edge) ==
    IF edge.reverse THEN DeclaredById(edge.relationship.id).left_dataset
    ELSE DeclaredById(edge.relationship.id).right_dataset

\* the optional clauses that are present, in the order of the query
OptionalClauses ==
    (IF args.where_clauses = <<>> THEN <<>>
     ELSE <<"WHERE " \o JoinStr(" AND ", args.where_clauses)>>)
    \o (IF args.group_by = <<>> THEN <<>>
        ELSE <<"GROUP BY " \o JoinStr(", ", args.group_by)>>)
    \o (IF args.order_by = <<>> THEN <<>>
        ELSE <<"ORDER BY " \o JoinStr(", ", args.order_by)>>)
    \o (IF args.limit = 0 THEN <<>> ELSE <<"LIMIT " \o ToString(args.limit)>>)

(***************************************************************************)
(* C19.  For a join path of n >= 1 edges generate_multi_dataset_query      *)
(* emits, after the SELECT list, one FROM clause that names the dataset    *)
(* the first edge leaves (the left dataset of a forward edge, the right    *)
(* dataset of a reverse edge), then n JOIN clauses in path order, the i-th *)
(* joining the dataset the i-th edge reaches with the join type of its     *)
(* relationship, then WHERE, GROUP BY, ORDER BY and LIMIT in this order,   *)
(* each only when present.                                                 *)
(***************************************************************************)
C19_FromThenJoinsThenOptionalClauses ==
    (Called("generate_multi_dataset_query") /\ args.join_path # <<>>) =>
        LET n == Len(args.join_path)
            s == SelectLength
        IN  /\ Len(result) = s + 1 + n + Len(OptionalClauses)
            /\ result[s + 1] =
                   "FROM " \o Origin(args.join_path[1]) \o " AS "
                   \o AliasOf(generator, Origin(args.join_path[1]))
            /\ \A i \in 1..n :
                   /\ result[s + 1 + i] = ExpectedJoinLine(args.join_path[i])
                   /\ ExpectedJoinLine(args.join_path[i]) =
                          Upper(DeclaredById(args.join_path[i].relationship.id)
                                    .join_type)
                          \o " JOIN " \o Destination(args.join_path[i])
                          \o " AS "
                          \o AliasOf(generator, Destination(args.join_path[i]))
                          \o " ON "
                          \o JoinStr(" ", JoinConditions(generator,
                                 JoinSides(args.join_path[i]),
                                 AliasOf(generator,
                                         Destination(args.join_path[i])),
                                 1, <<>>))
            /\ SubSeq(result, s + 2 + n, Len(result)) = OptionalClauses

\* a path of two reverse edges with only GROUP BY and LIMIT present
C19_Witness ==
    /\ Called("generate_multi_dataset_query")
    /\ args.join_path = <<ReverseEdge(OrderCustomer), ReverseEdge(ItemOrder)>>
    /\ args.select_columns = <<"*">>
    /\ args.where_clauses = <<>> /\ args.order_by = <<>>
    /\ result = <<"SELECT *",
                  "FROM customers AS c",
                  "INNER JOIN orders AS o ON c.id = o.customer_id",
                  "LEFT JOIN items AS items ON o.id = items.order_id",
                  "GROUP BY c.name",
                  "LIMIT 10">>

\* the declared filter of an id, and the declared parameter of a name
FilterOf(filter_id) ==
    CHOOSE f \in Range(generator.context.filters) : f.id = filter_id

DeclaredParameters(filter_def) ==
    IF "parameters" \in DOMAIN filter_def THEN Range(filter_def.parameters)
    ELSE {}

\* the parameter of the placeholder {name}, when the filter declares it and
\* params supplies a value for it
Supplied(filter_def, params, name) ==
    {param \in DeclaredParameters(filter_def) :
        /\ param.name = name
        /\ params # NoneDict
        /\ name \in DOMAIN params}

\* the condition with each of its own placeholders replaced at most once,
\* from left to right
RECURSIVE Substituted(_, _, _)
Substituted(condition, filter_def, params) ==
    IF condition = <<>> THEN <<>>
    ELSE IF /\ Len(condition) >= 3
            /\ condition[1] = "{"
            /\ condition[3] = "}"
            /\ Supplied(filter_def, params, condition[2]) # {}
    THEN LET param == CHOOSE x \in Supplied(filter_def, params, condition[2]) :
                          TRUE
             value == params[condition[2]]
         IN  (IF "data_type" \in DOMAIN param /\ param.data_type # "string"
              THEN value ELSE <<"'">> \o value \o <<"'">>)
             \o Substituted(SubSeq(condition, 4, Len(condition)), filter_def,
                            params)
    ELSE <<Head(condition)>>
         \o Substituted(Tail(condition), filter_def, params)

(***************************************************************************)
(* C20.  apply_filter returns the declared condition of the filter in      *)
(* which a placeholder {name} is replaced only when name is a declared     *)
(* parameter of the filter and params supplies a value for it, by the      *)
(* value in quotes for a string parameter and by the value as it is        *)
(* otherwise; every other placeholder stays as it is; and a condition      *)
(* without placeholders is returned unchanged whatever params is.          *)
(***************************************************************************)
C20_PlaceholdersOfTheConditionReplaced ==
    (Called("apply_filter") /\ args.filter_id \in DOMAIN generator.filters) =>
        /\ result = Substituted(FilterOf(args.filter_id).condition,
                                FilterOf(args.filter_id), args.params)
        /\ args.filter_id = "active_only" => result = ActiveOnly.condition

\* C20, what holds: the same, when no supplied value of a declared parameter
\* holds a brace
C20_ReplacedWhenValuesHoldNoBrace ==
    (/\ Called("apply_filter")
     /\ args.filter_id \in DOMAIN generator.filters
     /\ \A name \in {"p", "q"} :
            (args.params # NoneDict /\ name \in DOMAIN args.params)
                => "{" \notin Range(args.params[name])) =>
        /\ result = Substituted(FilterOf(args.filter_id).condition,
                                FilterOf(args.filter_id), args.params)
        /\ args.filter_id = "active_only" => result = ActiveOnly.condition

\* C20: the value {q} given for p was replaced again by the value of q
C20_ValueReplacedAgain ==
    /\ Called("apply_filter")
    /\ args.filter_id = "between"
    /\ args.params = [p |-> <<"{", "q", "}">>, q |-> <<"7">>]
    /\ result = <<"'", "7", "'", "<", "7", "<", "{", "z", "}">>

\* ---------------------------------------------------------------------
\* SQLGenerator.validate_sql
\* ---------------------------------------------------------------------

\* A text is a sequence of words; the text itself is the words joined by
\* single spaces, the word "\n" standing for a line break.
MaxWords == 4

SqlWords == {"drop", "Table", "database", "TRUNCATE", "delete", "from",
             "update", "set", "where", "t", "offset", "\n"}

\* str.upper, word by word
UpperWord(w) ==
    CASE w = "drop" -> "DROP"
      [] w = "Table" -> "TABLE"
      [] w = "database" -> "DATABASE"
      [] w = "TRUNCATE" -> "TRUNCATE"
      [] w = "delete" -> "DELETE"
      [] w = "from" -> "FROM"
      [] w = "update" -> "UPDATE"
      [] w = "set" -> "SET"
      [] w = "where" -> "WHERE"
      [] w = "t" -> "T"
      [] w = "offset" -> "OFFSET"
      [] w = "\n" -> "\n"

SqlUpper(sql) == [i \in DOMAIN sql |-> UpperWord(sql[i])]

\* the upper-case words that hold a literal as a substring, as a suffix
\* and as a prefix
HasLiteral(w, literal) == w = literal \/ (w = "OFFSET" /\ literal = "SET")
EndsWithLiteral(w, literal) ==
    w = literal \/ (w = "OFFSET" /\ literal = "SET")
StartsWithLiteral(w, literal) == w = literal

\* re.search of a two-word literal such as 'DROP TABLE': one space between
TwoWordLiteral(text, first, second) ==
    \E i \in 1..(Len(text) - 1) :
        /\ EndsWithLiteral(text[i], first)
        /\ StartsWithLiteral(text[i + 1], second)

\* '.' matches every character but the line break: the last word that '.*'
\* can reach from word m
RECURSIVE LineEnd(_, _)
LineEnd(text, m) ==
    IF m < Len(text) /\ text[m + 1] # "\n" THEN LineEnd(text, m + 1) ELSE m

\* the places at which '.*', started at the end of word m, may stop: at
\* the end of a word of the line, or one space further, in front of the
\* next word
WildcardStops(text, m) ==
    {[word |-> n, front |-> FALSE] : n \in m..LineEnd(text, m)}
    \cup {[word |-> n, front |-> TRUE] :
            n \in (m + 1)..Smaller(LineEnd(text, m) + 1, Len(text))}

\* '(?!WHERE)': what follows the place is not the literal WHERE; at the
\* end of a word what follows is a space, a line break or nothing
NotFollowedByWhere(text, stop) ==
    IF stop.front THEN ~StartsWithLiteral(text[stop.word], "WHERE")
    ELSE TRUE

\* 'DELETE FROM.*(?!WHERE)'
DeleteFromPattern(text) ==
    \E i \in 1..(Len(text) - 1) :
        /\ EndsWithLiteral(text[i], "DELETE")
        /\ StartsWithLiteral(text[i + 1], "FROM")
        /\ \E stop \in WildcardStops(text, i + 1) :
               NotFollowedByWhere(text, stop)

\* 'UPDATE.*SET.*(?!WHERE)'
UpdateSetPattern(text) ==
    \E i \in 1..Len(text) :
        /\ HasLiteral(text[i], "UPDATE")
        /\ \E j \in (i + 1)..LineEnd(text, i) :
               /\ HasLiteral(text[j], "SET")
               /\ \E stop \in WildcardStops(text, j) :
                      NotFollowedByWhere(text, stop)

validate_sql(sql) ==
    LET sql_upper == SqlUpper(sql)
    IN  IF TwoWordLiteral(sql_upper, "DROP", "TABLE") THEN FALSE
        ELSE IF TwoWordLiteral(sql_upper, "DROP", "DATABASE") THEN FALSE
        ELSE IF \E i \in 1..Len(sql_upper) :
                    HasLiteral(sql_upper[i], "TRUNCATE") THEN FALSE
        ELSE IF DeleteFromPattern(sql_upper) THEN FALSE
        ELSE IF UpdateSetPattern(sql_upper) THEN FALSE
        ELSE TRUE

InitSafety ==
    /\ relationships = <<>>
    /\ graph = build_graph(relationships)
    /\ generator = SQLGenerator(EmptyContext)
    /\ parsed_context = NoneDict
    /\ validator = [db |-> OwnedDatasets, user_id |-> "u1"]
    /\ validation = NoValidation
    /\ calls = [add_error |-> 0, add_warning |-> 0]
    /\ op = "init"
    /\ args = <<>>
    /\ result = PyNone

ValidateSql ==
    \E sql \in SeqsUpTo(SqlWords, MaxWords) :
        /\ op = "init"
        /\ op' = "validate_sql"
        /\ args' = [sql |-> sql]
        /\ result' = [returned |-> validate_sql(sql)]
        /\ UNCHANGED <<relationships, graph, generator, parsed_context,
                       validator, validation, calls>>

NextSafety == ValidateSql

SpecSafety == InitSafety /\ [][NextSafety]_vars

\* What the statement calls dangerous, read off the words of the text in
\* any letter case: DROP TABLE, DROP DATABASE, TRUNCATE, a DELETE FROM with
\* no WHERE after it, an UPDATE ... SET with no WHERE after it.
WordAt(sql, i, literal) == UpperWord(sql[i]) = literal

WhereAfter(sql, i) == \E k \in (i + 1)..Len(sql) : WordAt(sql, k, "WHERE")

Dangerous(sql) ==
    \/ \E i \in 1..(Len(sql) - 1) :
           /\ WordAt(sql, i, "DROP")
           /\ WordAt(sql, i + 1, "TABLE") \/ WordAt(sql, i + 1, "DATABASE")
    \/ \E i \in 1..Len(sql) : WordAt(sql, i, "TRUNCATE")
    \/ \E i \in 1..(Len(sql) - 1) :
           /\ WordAt(sql, i, "DELETE")
           /\ WordAt(sql, i + 1, "FROM")
           /\ ~WhereAfter(sql, i + 1)
    \/ \E i \in 1..Len(sql) :
           /\ WordAt(sql, i, "UPDATE")
           /\ \E j \in (i + 1)..Len(sql) :
                  WordAt(sql, j, "SET") /\ ~WhereAfter(sql, j)

\* C21: validate_sql returns False exactly for the texts that hold DROP
\* TABLE, DROP DATABASE, TRUNCATE, a DELETE without WHERE or an UPDATE ...
\* SET without WHERE, in any letter case, and True for every other text,
\* a DELETE or UPDATE that carries a WHERE clause included.
C21_FalseExactlyForDangerousText ==
    Called("validate_sql") =>
        (result.returned <=> ~Dangerous(args.sql))

\* C21: the literal statements DROP TABLE, DROP DATABASE and TRUNCATE are
\* refused in any letter case.
C21_DropAndTruncateRefused ==
    (/\ Called("validate_sql")
     /\ \/ \E i \in 1..(Len(args.sql) - 1) :
               /\ WordAt(args.sql, i, "DROP")
               /\ \/ WordAt(args.sql, i + 1, "TABLE")
                  \/ WordAt(args.sql, i + 1, "DATABASE")
        \/ \E i \in 1..Len(args.sql) : WordAt(args.sql, i, "TRUNCATE"))
    => ~result.returned

\* the text "delete from t where" is refused although its DELETE carries a
\* WHERE clause
C21_DeleteWithWhereRefused ==
    /\ Called("validate_sql")
    /\ args.sql = <<"delete", "from", "t", "where">>
    /\ ~Dangerous(args.sql)
    /\ ~result.returned

\* ---------------------------------------------------------------------
\* RelationshipResolver.validate_join_path and estimate_join_cost on any
\* path
\* ---------------------------------------------------------------------

MaxPathLen == 3

PathRelationships ==
    {[id |-> "ab", left_dataset |-> "A", right_dataset |-> "B"],
     [id |-> "ab_left", left_dataset |-> "A", right_dataset |-> "B",
      join_type |-> "left"],
     [id |-> "bc", left_dataset |-> "B", right_dataset |-> "C",
      join_type |-> "right"],
     [id |-> "ac", left_dataset |-> "A", right_dataset |-> "C",
      join_type |-> "outer"],
     [id |-> "aa", left_dataset |-> "A", right_dataset |-> "A",
      join_type |-> "inner"]}

\* the edges build_graph makes of the relationships, an edge that names
\* only its target, and an edge without the reverse key
PathEdges ==
    {ForwardEdge(rel) : rel \in PathRelationships}
    \cup {ReverseEdge(rel) : rel \in PathRelationships}
    \cup {[to |-> "B"]}
    \cup {[to |-> "C",
           relationship |-> [id |-> "bc", left_dataset |-> "B",
                             right_dataset |-> "C"]]}

Paths(n) == SeqsUpTo(PathEdges, n)

InitPaths ==
    /\ relationships = <<>>
    /\ graph = build_graph(relationships)
    /\ generator = SQLGenerator(EmptyContext)
    /\ parsed_context = NoneDict
    /\ validator = [db |-> OwnedDatasets, user_id |-> "u1"]
    /\ validation = NoValidation
    /\ calls = [add_error |-> 0, add_warning |-> 0]
    /\ op = "init"
    /\ args = <<>>
    /\ result = PyNone

ValidateJoinPath ==
    \E path \in Paths(MaxPathLen) :
        /\ op = "init"
        /\ op' = "validate_join_path"
        /\ args' = [path |-> path]
        /\ result' = [returned |-> validate_join_path(path)]
        /\ UNCHANGED <<relationships, graph, generator, parsed_context,
                       validator, validation, calls>>

\* edge['relationship'] raises KeyError for an edge without the key
EstimateJoinCost ==
    \E path \in Paths(MaxPathLen) :
        /\ op = "init"
        /\ op' = "estimate_join_cost"
        /\ args' = [path |-> path]
        /\ result' = IF \E i \in DOMAIN path :
                            "relationship" \notin DOMAIN path[i]
                     THEN Raised("KeyError")
                     ELSE [returned |-> estimate_join_cost(path)]
        /\ UNCHANGED <<relationships, graph, generator, parsed_context,
                       validator, validation, calls>>

NextPaths ==
    \/ ValidateJoinPath
    \/ EstimateJoinCost

SpecPaths == InitPaths /\ [][NextPaths]_vars

CarriesRelationship(edge) == "relationship" \in DOMAIN edge

\* how often a dataset is an endpoint of the edges of a path
EndpointCount(path, ds) ==
    Cardinality({i \in DOMAIN path : path[i].relationship.left_dataset = ds})
    + Cardinality({i \in DOMAIN path :
                      path[i].relationship.right_dataset = ds})

SomeDatasetMoreThanTwice(path) ==
    \E ds \in {"A", "B", "C"} : EndpointCount(path, ds) > 2

JoinTypeCount(path, types) ==
    Cardinality({i \in DOMAIN path :
                    /\ "join_type" \in DOMAIN path[i].relationship
                    /\ path[i].relationship.join_type \in types})

\* C23: estimate_join_cost is 10 for every edge, 5 more for every left or
\* right join and 10 more for every outer join, an edge without join type
\* counting as inner; it is 0 for the empty path and positive otherwise.
C23_CostIsSumOverEdges ==
    (/\ Called("estimate_join_cost")
     /\ \A i \in DOMAIN args.path : CarriesRelationship(args.path[i]))
    => /\ ~IsRaised(result)
       /\ result.returned = 10 * Len(args.path)
                            + 5 * JoinTypeCount(args.path, {"left", "right"})
                            + 10 * JoinTypeCount(args.path, {"outer"})
       /\ args.path = <<>> <=> result.returned = 0
       /\ args.path # <<>> => result.returned > 0

\* an outer join, a left join and an edge without join type cost 20 + 15
\* + 10
C23_Witness ==
    /\ Called("estimate_join_cost")
    /\ Len(args.path) = 3
    /\ \A i \in DOMAIN args.path : CarriesRelationship(args.path[i])
    /\ JoinTypeCount(args.path, {"outer"}) = 1
    /\ JoinTypeCount(args.path, {"left"}) = 1
    /\ JoinTypeCount(args.path, {"inner", "left", "right", "outer"}) = 2
    /\ result.returned = 45

\* ---------------------------------------------------------------------
\* Specification SpecTree: find_join_path_multi over relationship lists
\* whose ids are pairwise distinct, with every max_depth.
\* ---------------------------------------------------------------------

InitTree == \E rels \in UniqueIdLists(MaxRels) : InitResolver(rels)

NextTree == SearchMulti

SpecTree == InitTree /\ [][NextTree]_vars

\* C24: a path returned by find_join_path_multi(ids, max_depth) has at
\* most max_depth edges.
C24_PathWithinMaxDepth ==
    (/\ Called("find_join_path_multi")
     /\ result.found)
    => Len(result.path) <= args.max_depth

\* C24: max_depth bounds every search from a connected dataset to a
\* required one, so a path has at most max_depth edges for each required
\* dataset after the first.
C24_EachSearchWithinMaxDepth ==
    (/\ Called("find_join_path_multi")
     /\ Len(args.dataset_ids) >= 2
     /\ result.found)
    => Len(result.path) <= args.max_depth * (Len(args.dataset_ids) - 1)

\* A -> B and B -> C, required A, B, C, max_depth = 1: two edges
C24_TwoEdgesWithMaxDepthOne ==
    /\ Called("find_join_path_multi")
    /\ relationships = <<PlainRelationship("r1", "A", "B"),
                         PlainRelationship("r2", "B", "C")>>
    /\ args.dataset_ids = <<"A", "B", "C">>
    /\ args.max_depth = 1
    /\ result.found
    /\ Len(result.path) = 2

\* ---------------------------------------------------------------------
\* The cycle reported by _detect_circular_dependencies, and self-joins
\* (Specification SpecValidate)
\* ---------------------------------------------------------------------

\* a relationship of the document leads from x to y
DeclaredLeftToRight(x, y) ==
    \E i \in 1..Len(DocRels) :
        DocRels[i].left_dataset = x /\ DocRels[i].right_dataset = y

CycleOf(i) == validation.errors[i].details.cycle

\* every consecutive pair of the sequence is a declared relationship
IsDeclaredWalk(c) ==
    /\ Len(c) >= 2
    /\ \A k \in 1..(Len(c) - 1) : DeclaredLeftToRight(c[k], c[k + 1])

\* C25: the cycle detail of a CIRCULAR_DEPENDENCY error begins and ends at
\* the same dataset and every consecutive pair of it is a declared
\* left -> right relationship, so it holds no dataset outside the cycle,
\* wherever the depth-first search started.
C25_CycleDetailIsTheCycle ==
    (/\ Called("validate")
     /\ ~IsRaised(result))
    => \A i \in CircularErrors :
           /\ IsDeclaredWalk(CycleOf(i))
           /\ CycleOf(i)[1] = CycleOf(i)[Len(CycleOf(i))]

\* C25: the detail is the walk of the search from its start to the first
\* dataset met again: consecutive pairs are declared relationships, the
\* last dataset occurs once before, and no other dataset occurs twice.
C25_CycleDetailIsWalkToRepeat ==
    (/\ Called("validate")
     /\ ~IsRaised(result))
    => \A i \in CircularErrors :
           LET c == CycleOf(i)
           IN  /\ IsDeclaredWalk(c)
               /\ \E k \in 1..(Len(c) - 1) : c[k] = c[Len(c)]
               /\ \A j, k \in 1..(Len(c) - 1) : j # k => c[j] # c[k]

\* A -> B, B -> C, C -> B: the search starts at A and reports A, B, C, B
C25_CycleDetailStartsOutsideCycle ==
    /\ Called("validate")
    /\ ~IsRaised(result)
    /\ DocRels = <<PlainRelationship("r1", "A", "B"),
                   PlainRelationship("r2", "B", "C"),
                   PlainRelationship("r3", "C", "B")>>
    /\ \E i \in CircularErrors : CycleOf(i) = <<"A", "B", "C", "B">>

IsSelfJoin(rel) == rel.left_dataset = rel.right_dataset

NotSelfJoin(rel) == ~IsSelfJoin(rel)

\* the document under validation without its self-joins
WithoutSelfJoins ==
    [parsed_context EXCEPT !.relationships = SelectSeq(DocRels, NotSelfJoin)]

\* the document has a self-join and is valid but for its self-joins
ValidButForSelfJoins ==
    /\ parsed_context.context_type = "multi_dataset"
    /\ \E i \in 1..Len(DocRels) : IsSelfJoin(DocRels[i])
    /\ \A outcome \in validate(validator, WithoutSelfJoins) :
           ~IsRaised(outcome) /\ outcome.errors = <<>>

\* C26: a multi-dataset document that is valid but for a relationship
\* whose leftDataset equals its rightDataset gets no validation error.
C26_SelfJoinGetsNoError ==
    (/\ Called("validate")
     /\ ValidButForSelfJoins)
    => /\ ~IsRaised(result)
       /\ validation.errors = <<>>

\* C26: such a document gets exactly one error, the CIRCULAR_DEPENDENCY
\* that the self-join is reported as.
C26_SelfJoinReportedAsCycle ==
    (/\ Called("validate")
     /\ ValidButForSelfJoins)
    => /\ ~IsRaised(result)
       /\ Len(validation.errors) = 1
       /\ CircularErrors = {1}
       /\ ~validation.passed

\* the only relationship is A -> A: the error names the cycle A, A
C26_SelfJoinRefused ==
    /\ Called("validate")
    /\ ValidButForSelfJoins
    /\ DocRels = <<PlainRelationship("r1", "A", "A")>>
    /\ CircularErrors = {1}
    /\ CycleOf(1) = <<"A", "A">>

\* ---------------------------------------------------------------------
\* Specification SpecSteps: the three searches one loop iteration at a
\* time.  While a search runs, `result` holds its local variables and
\* result.pc tells whether the loop is still running.
\* ---------------------------------------------------------------------

StepDepths == {1, DefaultMaxDepth}

InitSteps == \E rels \in UniqueIdLists(MaxRels) : InitResolver(rels)

Running == op # "init" /\ result.pc = "loop"

Returned == op # "init" /\ result.pc = "returned"

\* the start of the search counted as not yet visited
InitialVisitedEmpty(from_dataset) == {}

\* `visited = {from_dataset}`
InitialVisited(from_dataset) == {from_dataset}

\* find_join_path up to its `while queue`; enqueued lists the datasets put
\* on the queue so far
BfsStart ==
    \E from_dataset \in Datasets, to_dataset \in Datasets,
       max_depth \in StepDepths :
        /\ op = "init"
        /\ op' = "find_join_path"
        /\ args' = [from_dataset |-> from_dataset, to_dataset |-> to_dataset,
                    max_depth |-> max_depth]
        /\ result' =
            IF from_dataset = to_dataset
            THEN [pc |-> "returned", ret |-> Some(<<>>), queue |-> <<>>,
                  visited |-> {}, enqueued |-> <<>>]
            ELSE IF from_dataset \notin DOMAIN graph
                    \/ to_dataset \notin DOMAIN graph
            THEN [pc |-> "returned", ret |-> None, queue |-> <<>>,
                  visited |-> {}, enqueued |-> <<>>]
            ELSE [pc |-> "loop", ret |-> None,
                  queue |-> << <<from_dataset, <<>> >> >>,
                  visited |-> InitialVisited(from_dataset),
                  enqueued |-> <<from_dataset>>]
        /\ UNCHANGED <<relationships, graph, generator, parsed_context,
                       validator, validation, calls>>

\* one pass of `while queue`
BfsStep ==
    /\ op = "find_join_path"
    /\ Running
    /\ result' =
        IF result.queue = <<>>
        THEN [result EXCEPT !.pc = "returned", !.ret = None]
        ELSE LET current == Head(result.queue)[1]
                 path == Head(result.queue)[2]
                 rest == Tail(result.queue)
             IN  IF DepthLimitReached(path, args.max_depth)
                 THEN [result EXCEPT !.queue = rest]
                 ELSE LET e == ExploreNeighbors(GraphGet(graph, current), 1,
                                   path, rest, result.visited,
                                   args.to_dataset)
                      IN  IF e.returned
                          THEN [result EXCEPT !.pc = "returned",
                                              !.ret = Some(e.path),
                                              !.queue = rest]
                          ELSE [result EXCEPT
                                   !.queue = e.queue,
                                   !.visited = e.visited,
                                   !.enqueued = @ \o
                                       [k \in 1..(Len(e.queue) - Len(rest)) |->
                                           e.queue[Len(rest) + k][1]]]
    /\ UNCHANGED <<relationships, graph, generator, parsed_context,
                   validator, validation, calls, op, args>>

\* _detect_circular_dependencies up to its `for node in graph`; stack
\* holds the has_cycle calls in progress, each with the neighbours its
\* loop has still to take, and visits lists the datasets has_cycle was
\* called for
DfsStart ==
    /\ op = "init"
    /\ op' = "detect_circular_dependencies"
    /\ args' = [relationships |-> relationships]
    /\ result' = [pc |-> "loop", ret |-> NoCycle,
                  keys |-> GraphKeys(relationships, 1, <<>>), i |-> 1,
                  stack |-> <<>>, visited |-> {}, rec_stack |-> {},
                  visits |-> <<>>]
    /\ UNCHANGED <<relationships, graph, generator, parsed_context,
                   validator, validation, calls>>

\* has_cycle(node, visited, rec_stack) entered
EnterHasCycle(frame, node, rec_stack) ==
    [frame EXCEPT
        !.stack = Append(@, [node |-> node,
                             todo |-> Successors(args.relationships, node)]),
        !.visited = @ \cup {node},
        !.rec_stack = rec_stack \cup {node},
        !.visits = Append(@, node)]

\* one pass of `for node in graph` when no has_cycle call is in progress,
\* otherwise one pass of `for neighbor in graph.get(node, [])` of the
\* innermost call, or its return
DfsStep ==
    /\ op = "detect_circular_dependencies"
    /\ Running
    /\ IF result.stack = <<>>
       THEN result' =
            IF result.i > Len(result.keys)
            THEN [result EXCEPT !.pc = "returned"]
            ELSE IF result.keys[result.i] \in result.visited
            THEN [result EXCEPT !.i = @ + 1]
            ELSE EnterHasCycle([result EXCEPT !.i = @ + 1],
                               result.keys[result.i], {})
       ELSE LET depth == Len(result.stack)
                top == result.stack[depth]
            IN  IF top.todo = {}
                THEN result' = [result EXCEPT
                                   !.stack = SubSeq(@, 1, depth - 1),
                                   !.rec_stack = @ \ {top.node}]
                ELSE \E neighbor \in top.todo :
                        LET taken == [result EXCEPT
                                         !.stack[depth].todo = @ \ {neighbor}]
                        IN  result' =
                            IF neighbor \notin result.visited
                            THEN EnterHasCycle(taken, neighbor,
                                               result.rec_stack)
                            ELSE IF ClosesCycle(neighbor, result.rec_stack)
                            THEN [taken EXCEPT
                                     !.pc = "returned",
                                     !.ret = [found |-> TRUE,
                                              cycle |->
                                                  [k \in 1..depth |->
                                                      result.stack[k].node]
                                                  \o <<neighbor>>]]
                            ELSE taken
    /\ UNCHANGED <<relationships, graph, generator, parsed_context,
                   validator, validation, calls, op, args>>

\* find_join_path_multi up to its `while remaining`
MultiStart ==
    \E dataset_ids \in SeqsUpTo(Datasets, MaxRequired),
       max_depth \in {DefaultMaxDepthMulti} :
        /\ op = "init"
        /\ op' = "find_join_path_multi"
        /\ args' = [dataset_ids |-> dataset_ids, max_depth |-> max_depth]
        /\ result' =
            IF Len(dataset_ids) < 2
            THEN [pc |-> "returned", ret |-> Some(<<>>), connected |-> {},
                  remaining |-> {}, all_edges |-> <<>>, iterations |-> 0]
            ELSE [pc |-> "loop", ret |-> None,
                  connected |-> {dataset_ids[1]},
                  remaining |-> Range(Tail(dataset_ids)),
                  all_edges |-> <<>>, iterations |-> 0]
        /\ UNCHANGED <<relationships, graph, generator, parsed_context,
                       validator, validation, calls>>

\* one pass of `while remaining`, or the return after it
MultiStep ==
    /\ op = "find_join_path_multi"
    /\ Running
    /\ IF result.remaining = {}
       THEN result' = [result EXCEPT
                          !.pc = "returned",
                          !.ret = Some(RemoveDuplicateRelationships(
                                           result.all_edges, 1, {}, <<>>))]
       ELSE LET best == BestPairs(graph, result.connected, result.remaining,
                                  args.max_depth)
            IN  IF best = {}
                THEN result' = [result EXCEPT !.pc = "returned",
                                              !.ret = None,
                                              !.iterations = @ + 1]
                ELSE \E p \in best :
                        result' = [result EXCEPT
                            !.connected = @ \cup {p[2]},
                            !.remaining = @ \ {p[2]},
                            !.all_edges = @ \o
                                find_join_path(graph, p[1], p[2],
                                               args.max_depth).path,
                            !.iterations = @ + 1]
    /\ UNCHANGED <<relationships, graph, generator, parsed_context,
                   validator, validation, calls, op, args>>

NextSteps ==
    \/ BfsStart
    \/ BfsStep
    \/ DfsStart
    \/ DfsStep
    \/ MultiStart
    \/ MultiStep

SpecSteps == InitSteps /\ [][NextSteps]_vars

\* a search that can take a step takes it
SpecStepsFair == InitSteps /\ [][NextSteps]_vars /\ WF_vars(NextSteps)

NoRepeat(log) == \A j, k \in 1..Len(log) : j # k => log[j] # log[k]

\* what a finished step-by-step search returned is what the search called
\* as a whole returns
StepsAgreeWithCalls ==
    Returned =>
        /\ op = "find_join_path"
               => result.ret = find_join_path(graph, args.from_dataset,
                                   args.to_dataset, args.max_depth)
        /\ op = "find_join_path_multi"
               => result.ret \in find_join_path_multi(graph, args.dataset_ids,
                                     args.max_depth)
        /\ op = "detect_circular_dependencies"
               => \E v \in detect_circular_dependencies(args.relationships,
                                                        NewValidationResult) :
                      IF result.ret.found
                      THEN /\ Len(v.errors) = 1
                           /\ v.errors[1].details.cycle = result.ret.cycle
                      ELSE v = NewValidationResult

EachDatasetOnce ==
    /\ op = "find_join_path" => NoRepeat(result.enqueued)
    /\ op = "detect_circular_dependencies" => NoRepeat(result.visits)
    /\ op = "find_join_path_multi"
           => result.iterations <= Len(args.dataset_ids)

\* C27: on every relationship list, cycles, parallel relationships and
\* self-joins included, the breadth-first search puts each dataset on its
\* queue at most once, the depth-first search calls has_cycle for each
\* dataset at most once, the multi-dataset search makes at most one pass
\* per required dataset, and each of the three searches returns.
C27_SearchesTerminate ==
    /\ [](op # "init" => EachDatasetOnce)
    /\ <>Returned

\* the breadth-first search from A for C gave up on A -> B, B -> A, C -> C
\* after it had A and B on its queue once each
C27_Witness ==
    /\ Returned
    /\ op = "find_join_path"
    /\ relationships = <<PlainRelationship("r1", "A", "B"),
                         PlainRelationship("r2", "B", "A"),
                         PlainRelationship("r3", "C", "C")>>
    /\ args.to_dataset = "C"
    /\ result.enqueued = <<"A", "B">>
    /\ ~result.ret.found

\* ---------------------------------------------------------------------
\* The order of the edges of a returned path and the datasets a query
\* introduces (Specification SpecSql, relationship ids pairwise distinct)
\* ---------------------------------------------------------------------

\* the datasets that are an endpoint of an edge before edge i
EarlierEndpoints(path, i) ==
    {EdgeFrom(path[j]) : j \in 1..(i - 1)}
    \cup {EdgeTo(path[j]) : j \in 1..(i - 1)}

\* the datasets the query has introduced before the JOIN of edge i: the
\* one of the FROM clause and those of the JOINs before
Introduced(path, i) ==
    {EdgeFrom(path[1])} \cup {EdgeTo(path[j]) : j \in 1..(i - 1)}

\* the datasets the ON clause of an edge refers to
OnClauseDatasets(edge) ==
    {JoinSides(edge).left_ds_id, JoinSides(edge).right_ds_id}

\* C28: in a path returned by find_join_path_multi the first edge leaves
\* the first required dataset and every later edge leaves an endpoint of
\* an earlier edge, duplicates removed; a query generated from a returned
\* path has in every ON clause only the dataset that its JOIN introduces
\* and datasets introduced by the FROM clause or an earlier JOIN.
C28_EdgesLeaveIntroducedDatasets ==
    /\ (/\ Called("find_join_path_multi")
        /\ result.found
        /\ result.path # <<>>)
       => /\ EdgeFrom(result.path[1]) = args.dataset_ids[1]
          /\ \A i \in 2..Len(result.path) :
                 EdgeFrom(result.path[i]) \in EarlierEndpoints(result.path, i)
    /\ (/\ Called("generate_multi_dataset_query")
        /\ args.join_path # <<>>)
       => /\ result[Len(args.select_columns) + 1] =
                 "FROM " \o EdgeFrom(args.join_path[1]) \o " AS "
                 \o AliasOf(generator, EdgeFrom(args.join_path[1]))
          /\ \A i \in 1..Len(args.join_path) :
                 /\ result[Len(args.select_columns) + 1 + i] =
                        JoinClause(generator, args.join_path[i])
                 /\ JoinSides(args.join_path[i]).right_ds_id =
                        EdgeTo(args.join_path[i])
                 /\ OnClauseDatasets(args.join_path[i]) \subseteq
                        Introduced(args.join_path, i)
                        \cup {EdgeTo(args.join_path[i])}

\* a query over a path of two edges that both leave the dataset of the
\* FROM clause
C28_Witness ==
    /\ Called("generate_multi_dataset_query")
    /\ Len(args.join_path) = 2
    /\ EdgeFrom(args.join_path[2]) = EdgeFrom(args.join_path[1])
    /\ EdgeFrom(args.join_path[2]) # EdgeTo(args.join_path[1])
    /\ EdgeTo(args.join_path[2]) # EdgeTo(args.join_path[1])

\* ---------------------------------------------------------------------
\* Specification SpecOn: the JOIN clause of a relationship with one or
\* more join conditions.
\* ---------------------------------------------------------------------

MaxConditions == 3

LeftColumns == <<"id", "day", "hour", "zone", "lot">>
RightColumns == <<"ref_id", "ref_day", "ref_hour", "ref_zone", "ref_lot">>

\* condition i of a relationship, with the condition_type it declares, if
\* any
TypedCondition(i, condition_type) ==
    IF condition_type = PyNone
    THEN JoinCondition(LeftColumns[i], "=", RightColumns[i])
    ELSE [left_column |-> LeftColumns[i], operator |-> "=",
          right_column |-> RightColumns[i],
          condition_type |-> condition_type]

ConditionLists(n) ==
    UNION {{[i \in 1..k |-> TypedCondition(i, types[i])] :
            types \in [1..k -> {PyNone, "on", "and", "or"}]} : k \in 1..n}

InitOn ==
    \E conditions \in ConditionLists(MaxConditions) :
        /\ relationships = <<[id |-> "r1", left_dataset |-> "A",
                              right_dataset |-> "B", join_type |-> "inner",
                              conditions |-> conditions]>>
        /\ graph = build_graph(relationships)
        /\ generator = SQLGenerator(Context(2, TRUE))
        /\ parsed_context = NoneDict
        /\ validator = [db |-> EmptyDict, user_id |-> PyNone]
        /\ validation = NewValidationResult
        /\ calls = [add_error |-> 0, add_warning |-> 0]
        /\ op = "init"
        /\ args = <<>>
        /\ result = PyNone

\* the query over the path the resolver finds from one dataset of the
\* relationship to the other
GenerateJoin ==
    \E from_dataset \in {"A", "B"}, to_dataset \in {"A", "B"} :
        LET found == find_join_path(graph, from_dataset, to_dataset,
                                    DefaultMaxDepth)
        IN  /\ op = "init"
            /\ from_dataset # to_dataset
            /\ found.found
            /\ op' = "generate_multi_dataset_query"
            /\ args' = [select_columns |-> <<"*">>, join_path |-> found.path,
                        where_clauses |-> <<>>, group_by |-> <<>>,
                        order_by |-> <<>>, limit |-> 0]
            /\ result' = generate_multi_dataset_query(generator, args')
            /\ UNCHANGED <<relationships, graph, generator, parsed_context,
                           validator, validation, calls>>

NextOn == GenerateJoin

SpecOn == InitOn /\ [][NextOn]_vars

DeclaredConditions == relationships[1].conditions

JoinedEdge == args.join_path[1]

\* comparison i of the ON clause of the joined edge: the side of the
\* dataset joined before comes first
Comparison(i) ==
    LET cond == DeclaredConditions[i]
    IN  IF JoinedEdge.reverse
        THEN Qualified("B", cond.right_column) \o " " \o cond.operator
             \o " " \o Qualified("A", cond.left_column)
        ELSE Qualified("A", cond.left_column) \o " " \o cond.operator
             \o " " \o Qualified("B", cond.right_column)

JoinHead ==
    IF JoinedEdge.reverse THEN "INNER JOIN A AS a ON "
    ELSE "INNER JOIN B AS b ON "

\* the connective in front of comparison i: the one condition i declares,
\* AND when it declares none
Connective(i) ==
    IF ConditionTypeOf(DeclaredConditions[i]) \in {"and", "or"}
    THEN Upper(ConditionTypeOf(DeclaredConditions[i]))
    ELSE "AND"

\* the line of the JOIN in the generated query
JoinLine == result[Len(args.select_columns) + 2]

\* C29: for a relationship with k >= 2 join conditions the ON clause holds
\* the k comparisons in order, each but the first preceded by a logical
\* connective: the one its condition declares, else AND.
C29_ComparisonsJoinedByConnective ==
    (/\ Called("generate_multi_dataset_query")
     /\ Len(DeclaredConditions) >= 2)
    => JoinLine = JoinHead \o JoinStr(" ",
                      [i \in 1..Len(DeclaredConditions) |->
                          IF i = 1 THEN Comparison(i)
                          ELSE Connective(i) \o " " \o Comparison(i)])

\* C29: the ON clause holds the k comparisons in order, separated by a
\* space; a connective stands in front of a comparison only where the
\* join follows the declared direction and the condition declares the
\* type and or the type or.
C29_ConnectiveOnlyWhereDeclared ==
    Called("generate_multi_dataset_query")
    => JoinLine = JoinHead \o JoinStr(" ",
                      [i \in 1..Len(DeclaredConditions) |->
                          IF /\ i > 1
                             /\ ~JoinedEdge.reverse
                             /\ ConditionTypeOf(DeclaredConditions[i])
                                    \in {"and", "or"}
                          THEN Connective(i) \o " " \o Comparison(i)
                          ELSE Comparison(i)])

\* two conditions that declare no type: two comparisons side by side
C29_ComparisonsWithoutConnective ==
    /\ Called("generate_multi_dataset_query")
    /\ DeclaredConditions = <<TypedCondition(1, PyNone),
                              TypedCondition(2, PyNone)>>
    /\ ~JoinedEdge.reverse
    /\ JoinLine = "INNER JOIN B AS b ON a.id = b.ref_id a.day = b.ref_day"

\* ---------------------------------------------------------------------
\* Specification SpecSuggest: suggest_joins over trees of a hub and its
\* leaves.
\* ---------------------------------------------------------------------

MaxLeaves == 3

Hub == "H"

TreeDatasets == {Hub} \cup {DatasetNames[i] : i \in 1..MaxLeaves}

\* relationship i links leaf i to the hub, in either declared direction,
\* or to the leaf before it
TreeLinks(i) ==
    {<<Hub, DatasetNames[i]>>, <<DatasetNames[i], Hub>>}
    \cup (IF i > 1 THEN {<<DatasetNames[i - 1], DatasetNames[i]>>} ELSE {})

TreeLists(n) ==
    UNION {{[i \in 1..k |->
                PlainRelationship(RelIdNames[i], ends[i][1], ends[i][2])] :
            ends \in {e \in [1..k -> TreeDatasets \X TreeDatasets] :
                         \A i \in 1..k : e[i] \in TreeLinks(i)}} : k \in 1..n}

Distinct(ids) == \A j, k \in 1..Len(ids) : j # k => ids[j] # ids[k]

InitSuggest == \E rels \in TreeLists(MaxLeaves) : InitResolver(rels)

SuggestJoins ==
    \E required_datasets \in
           {ids \in SeqsUpTo(TreeDatasets, MaxLeaves + 1) : Distinct(ids)} :
        /\ op = "init"
        /\ op' = "suggest_joins"
        /\ args' = [required_datasets |-> required_datasets]
        /\ result' \in suggest_joins(graph, required_datasets, 3)
        /\ UNCHANGED <<relationships, graph, generator, parsed_context,
                       validator, validation, calls>>

NextSuggest == SuggestJoins

SpecSuggest == InitSuggest /\ [][NextSuggest]_vars

\* the required datasets with the one at position i put first
StartingAt(ids, i) ==
    <<ids[i]>> \o SelectSeq(ids, LAMBDA ds : ds # ids[i])

\* find_join_path_multi returns a path for the required datasets from
\* some starting dataset
ConnectedFromSomeStart(ids) ==
    \E i \in 1..Len(ids) :
        \E found \in find_join_path_multi(graph, StartingAt(ids, i),
                                          DefaultMaxDepthMulti) :
            found.found

\* how often a dataset is an endpoint of the declared relationships
Degree(ds) ==
    Cardinality({i \in 1..Len(relationships) :
                    relationships[i].left_dataset = ds})
    + Cardinality({i \in 1..Len(relationships) :
                      relationships[i].right_dataset = ds})

\* C30: suggest_joins returns at least one strategy whenever the required
\* datasets, two or more and distinct, can all be connected, that is
\* whenever find_join_path_multi returns a path for them from some
\* starting dataset, stars of three or more required datasets around one
\* hub included.
C30_SuggestsWheneverConnected ==
    (/\ Called("suggest_joins")
     /\ Len(args.required_datasets) >= 2
     /\ ConnectedFromSomeStart(args.required_datasets))
    => result # <<>>

\* C30: it does so when no dataset is an endpoint of more than two
\* relationships.
C30_SuggestsWhenNoDatasetJoinedThrice ==
    (/\ Called("suggest_joins")
     /\ Len(args.required_datasets) >= 2
     /\ ConnectedFromSomeStart(args.required_datasets)
     /\ \A ds \in TreeDatasets : Degree(ds) <= 2)
    => /\ result # <<>>
       /\ \A i \in 1..Len(result) : validate_join_path(result[i].path)

\* the star of H with A, B and C, required A, B, C: a path exists from
\* every start, and no strategy is returned
C30_StarOfThreeLeavesGetsNothing ==
    /\ Called("suggest_joins")
    /\ relationships = <<PlainRelationship("r1", "H", "A"),
                         PlainRelationship("r2", "H", "B"),
                         PlainRelationship("r3", "H", "C")>>
    /\ args.required_datasets = <<"A", "B", "C">>
    /\ \A i \in 1..3 :
           \A found \in find_join_path_multi(graph,
                            StartingAt(args.required_datasets, i),
                            DefaultMaxDepthMulti) :
               found.found /\ Len(found.path) = 3
    /\ result = <<>>

====
